---- MODULE Spec2Model ----
(***************************************************************************)
(* State-machine model of src/main.py: the shared-total ledger (manual     *)
(* add / release / undo / admin reversal), the confirmation rows, the      *)
(* Gmail-Zelle ingestion transaction with its sender-trust table, and the  *)
(* handlers that call them.                                                *)
(*                                                                         *)
(* The SQLite store is the record DB; every *_tx function of the source is *)
(* an operator from a store (and its arguments) to [db, res]: the store    *)
(* after the transaction and the dict the function returns.  Handlers are  *)
(* the actions.  Time is counted in days; NULL columns are Null.           *)
(***************************************************************************)
EXTENDS Integers, Sequences, FiniteSets, TLC

\* ---------------------------------------------------------------- bounds
MaxMov == 3            \* movements ever inserted (AUTOINCREMENT ids 1..MaxMov)
MaxNow == 2            \* days the clock can advance
MaxFeeTotal == 150     \* totals (cents) the fee computation is run on
Users == {1, 2}                   \* telegram user ids that talk to the bot
MsgIds == {"m1", "m2"}            \* gmail_message_id values in the mailbox
Identities == {"a", "b"}          \* normalized payer identity keys
ConfNumbers == {"", "c1"}         \* Bask confirmation numbers ("" = none)
AddAmounts == {0, 1}              \* cents typed / pressed for a manual add
EventAmounts == {2}               \* cents of a parsed event (parser: > 0)

\* ------------------------------------------------------ program constants
Null == -1                        \* SQL NULL / Python None in an int column
MAX_PARTICIPANTS == 2
CONFIRM_WINDOW_DAYS == 1          \* CONFIRM_WINDOW_SECONDS = 24*60*60
GMAIL_ZELLE_AUTO_PROMOTE_DAYS == 2  \* env, max(1, .): a deployment that sets 2
GMAIL_ZELLE_ACTOR_USER_ID == 2      \* env: the second user is the actor
GMAIL_ZELLE_MODE == "live"         \* env: a deployment with auto-add on
TRACKING_MODE_DEFAULT == "auto"
FEE_PCT_BP == 200                 \* FEE_PCT = 0.02, in 1/10000
NETWORK_FEE_CENTS == 30           \* NETWORK_FEE = 0.30

VARIABLES
  total_cents,      \* global_state.total_cents
  session_id,       \* global_state.session_id
  movements,        \* table movements, ordered by id
  mov_seq,          \* sqlite_sequence of movements (last id handed out)
  confirmations,    \* table confirmations (set of rows, key movement_id)
  releases,         \* table releases, ordered by id
  rel_seq,          \* sqlite_sequence of releases
  processed,        \* table gmail_processed_messages (key gmail_message_id)
  trust,            \* table gmail_sender_trust, ordered by id (never deleted)
  reversals,        \* table gmail_reversals, ordered by id
  rev_seq,          \* sqlite_sequence of gmail_reversals
  tracking_mode,    \* app_settings['tracking_mode'] (default applied)
  participants,     \* table participants ordered by added_at
  poll,             \* the poll cycle in progress: actor_id / effective_mode
  now,              \* the wall clock, in days
  last,             \* the latest call on the store and what it returned
  STATE_LOCK,       \* the task that holds the asyncio lock, "" when free
  pc,               \* the position of each task in the coroutine it runs
  loop              \* gmail_zelle_poll_loop: its status, the messages fetched

storeVars == <<total_cents, session_id, movements, mov_seq, confirmations,
               releases, rel_seq, processed, trust, reversals, rev_seq,
               tracking_mode>>
taskVars == <<STATE_LOCK, pc, loop>>
vars == <<total_cents, session_id, movements, mov_seq, confirmations,
          releases, rel_seq, processed, trust, reversals, rev_seq,
          tracking_mode, participants, poll, now, last, STATE_LOCK, pc, loop>>

\* The store as one value, so that transactions compose.
DB ==
  [total_cents |-> total_cents, session_id |-> session_id,
   movements |-> movements, mov_seq |-> mov_seq,
   confirmations |-> confirmations,
   releases |-> releases, rel_seq |-> rel_seq,
   processed |-> processed, trust |-> trust,
   reversals |-> reversals, rev_seq |-> rev_seq,
   tracking_mode |-> tracking_mode]

\* init_db on an empty file.
InitDB ==
  [total_cents |-> 0, session_id |-> 1,
   movements |-> <<>>, mov_seq |-> 0,
   confirmations |-> {},
   releases |-> <<>>, rel_seq |-> 0,
   processed |-> {}, trust |-> <<>>,
   reversals |-> <<>>, rev_seq |-> 0,
   tracking_mode |-> TRACKING_MODE_DEFAULT]

Commit(d) ==
  /\ total_cents' = d.total_cents
  /\ session_id' = d.session_id
  /\ movements' = d.movements
  /\ mov_seq' = d.mov_seq
  /\ confirmations' = d.confirmations
  /\ releases' = d.releases
  /\ rel_seq' = d.rel_seq
  /\ processed' = d.processed
  /\ trust' = d.trust
  /\ reversals' = d.reversals
  /\ rev_seq' = d.rev_seq
  /\ tracking_mode' = d.tracking_mode

\* What a call returned: the handler, the status of the returned dict, and the
\* gmail_message_id the call was about ("" when it is about none).
Res(op, status, msg) == [op |-> op, status |-> status, msg |-> msg]
NoCall == Res("init", "", "")

\* ------------------------------------------------------------ TIME / MONEY

\* quantize with ROUND_DOWN instead of ROUND_HALF_UP
RoundHalfUp_down(num, den) == num \div den

\* Decimal.quantize(..., rounding=ROUND_HALF_UP) of num/den to an integer,
\* for num >= 0: ties go away from zero.
RoundHalfUp(num, den) == (2 * num + den) \div (2 * den)

\* the amount texts a user sends: a text that is no number, or a decimal
\* number given in tenths of a cent (mills)
AmountTexts ==
  {[numeric |-> FALSE, mills |-> 0]} \cup
  {[numeric |-> TRUE, mills |-> m] : m \in {-10, -5, -4, 0, 4, 5, 10}}

\* money_to_cents: Decimal(text) * 100 quantized half-up (ties away from
\* zero); fails on a text that is no number and on cents < 0.
money_to_cents(text) ==
  LET cents == IF text.mills >= 0 THEN RoundHalfUp(text.mills, 10)
               ELSE 0 - RoundHalfUp(0 - text.mills, 10)
  IN IF ~text.numeric \/ cents < 0
     THEN [ok |-> FALSE, cents |-> 0]
     ELSE [ok |-> TRUE, cents |-> cents]

\* compute_fee_net: total = total_cents/100; fee = total*FEE_PCT quantized
\* to 0.01; net = total - fee - network_fee, floored at 0 cents.
compute_fee_net(t) ==
  LET fee_cents == RoundHalfUp(t * FEE_PCT_BP, 10000)
      net_raw == t - fee_cents - NETWORK_FEE_CENTS
  IN [fee_cents |-> fee_cents,
      network_fee_cents |-> NETWORK_FEE_CENTS,
      net_cents |-> IF net_raw < 0 THEN 0 ELSE net_raw]

\* ------------------------------------------------------------ table helpers

Last(s) == s[Len(s)]
Front(s) == SubSeq(s, 1, Len(s) - 1)
Range(s) == {s[i] : i \in 1..Len(s)}

\* A movements row.  actor_id and created_at are written and only ever shown
\* in the history view; they are left out of the rows.
Movement(id, s, kind, amount, total_after) ==
  [id |-> id, session_id |-> s, kind |-> kind, amount_cents |-> amount,
   total_after_cents |-> total_after]

\* INSERT INTO movements(...) with an AUTOINCREMENT id.
InsertMovement(d, kind, amount, total_after) ==
  [d EXCEPT !.mov_seq = d.mov_seq + 1,
            !.movements = Append(d.movements,
               Movement(d.mov_seq + 1, d.session_id, kind, amount, total_after))]

\* ---------------------------------------------------------- LEDGER ENGINE

\* a confirmation window that is already over when the row is created
ExpiresAt_now(created) == created

\* expires_iso of add_amount_with_confirmation (line 1746)
ExpiresAt(created) == created + CONFIRM_WINDOW_DAYS

\* add_amount_with_confirmation(actor_id, add_cents) at time t
add_amount_with_confirmation(d, actor, add_cents, t) ==
  LET new_total == d.total_cents + add_cents
      d1 == [d EXCEPT !.total_cents = new_total]
      d2 == InsertMovement(d1, "add", add_cents, new_total)
      mid == d2.mov_seq
      row == [movement_id |-> mid, actor_id |-> actor, amount_cents |-> add_cents,
              created_at |-> t, expires_at |-> ExpiresAt(t),
              is_confirmed |-> 0, confirmed_at |-> Null, confirmed_by |-> Null]
      d3 == [d2 EXCEPT !.confirmations =
               {c \in d2.confirmations : c.movement_id # mid} \cup {row}]
  IN [db |-> d3, res |-> Res("add", "ok", "")]

\* the early return taken for a negative total only
NothingToRelease_negative(total) == total < 0

\* the early return of release_current_total (line 1791)
NothingToRelease(total) == total <= 0

\* a release that stays in its session
SessionAfterRelease_same(s) == s

\* the session release_current_total moves to (line 1815)
SessionAfterRelease(s) == s + 1

\* release_current_total(actor_id)
release_current_total(d, actor) ==
  IF NothingToRelease(d.total_cents)
  THEN [db |-> d, res |-> Res("release", "none", "")]
  ELSE
    LET f == compute_fee_net(d.total_cents)
        rel == [id |-> d.rel_seq + 1, session_id |-> d.session_id,
                released_total_cents |-> d.total_cents,
                fee_cents |-> f.fee_cents,
                network_fee_cents |-> f.network_fee_cents,
                net_cents |-> f.net_cents]
        d1 == [d EXCEPT !.rel_seq = d.rel_seq + 1,
                        !.releases = Append(d.releases, rel)]
        d2 == InsertMovement(d1, "release", d.total_cents, 0)
        d3 == [d2 EXCEPT !.total_cents = 0,
                         !.session_id = SessionAfterRelease(d.session_id)]
    IN [db |-> d3, res |-> Res("release", "released", "")]

\* an undo of an add that leaves the total alone
UndoAddTotal_keep(current_total, last_amount) == current_total

\* the clamp of undo_last_movement_tx, add branch (lines 1858-1860)
UndoAddTotal(current_total, last_amount) ==
  IF current_total - last_amount < 0 THEN 0 ELSE current_total - last_amount

\* an undo of a release that stays in the new session
UndoReleaseSession_keep(current_session, last_session) == current_session

\* the session written by undo_last_movement_tx, release branch (line 1885)
UndoReleaseSession(current_session, last_session) == last_session

\* an undo of a reversal that leaves the total alone
UndoReversalTotal_keep(current_total, last_amount) == current_total

\* the total written by undo_last_movement_tx, reversal branch (line 1910)
UndoReversalTotal(current_total, last_amount) == current_total + last_amount

\* an undo of a reversal that keeps the gmail_reversals row
DeleteReversal_keep(revs, victim) == revs

\* "DELETE FROM gmail_reversals WHERE id = ?" of undo_last_movement_tx,
\* reversal branch
DeleteReversal(revs, victim) == SelectSeq(revs, LAMBDA r : r.id # victim)

\* undo_last_movement_tx()
undo_last_movement_tx(d) ==
  IF d.movements = <<>>
  THEN [db |-> d, res |-> Res("undo", "none", "")]
  ELSE
    LET lastm == Last(d.movements)
        rest == Front(d.movements)
    IN CASE lastm.kind = "add" ->
              [db |-> [d EXCEPT
                  !.session_id = lastm.session_id,
                  !.total_cents = UndoAddTotal(d.total_cents, lastm.amount_cents),
                  !.confirmations = {c \in d.confirmations : c.movement_id # lastm.id},
                  !.movements = rest],
               res |-> Res("undo", "add", "")]
         [] lastm.kind = "release" ->
              LET same == {i \in 1..Len(d.releases) :
                              d.releases[i].session_id = lastm.session_id}
                  victim == IF same = {} THEN Null
                            ELSE d.releases[CHOOSE i \in same : \A j \in same : j <= i].id
              IN [db |-> [d EXCEPT
                     !.session_id = UndoReleaseSession(d.session_id, lastm.session_id),
                     !.total_cents = lastm.amount_cents,
                     !.releases = SelectSeq(d.releases, LAMBDA r : r.id # victim),
                     !.movements = rest],
                  res |-> Res("undo", "release", "")]
         [] lastm.kind = "reversal" ->
              LET hits == {i \in 1..Len(d.reversals) :
                              d.reversals[i].reversal_movement_id = lastm.id}
                  victim == IF hits = {} THEN Null
                            ELSE d.reversals[CHOOSE i \in hits : \A j \in hits : i <= j].id
              IN [db |-> [d EXCEPT
                     !.total_cents = UndoReversalTotal(d.total_cents, lastm.amount_cents),
                     !.reversals = DeleteReversal(d.reversals, victim),
                     !.movements = rest],
                  res |-> Res("undo", "reversal", "")]
         [] OTHER -> [db |-> d, res |-> Res("undo", "unknown", "")]

\* ------------------------------------------------------------ CONFIRMATIONS

\* mark_confirmed / the UPDATE of confirm_movement_tx
MarkConfirmed(d, mid, by, t) ==
  [d EXCEPT !.confirmations =
     {IF c.movement_id = mid
        THEN [c EXCEPT !.is_confirmed = 1, !.confirmed_at = t, !.confirmed_by = by]
        ELSE c : c \in d.confirmations}]

\* an approval that does not look at is_confirmed
IsConfirmed_never(row) == FALSE

\* the already-confirmed test of confirm_movement_tx (line 597)
IsConfirmed(row) == row.is_confirmed = 1

\* confirm_movement_tx(movement_id, confirmer_id)
confirm_movement_tx(d, mid, confirmer, t) ==
  LET rows == {c \in d.confirmations : c.movement_id = mid}
  IN IF rows = {} THEN [db |-> d, res |-> Res("confirm", "missing", "")]
     ELSE LET row == CHOOSE c \in rows : TRUE
          IN IF IsConfirmed(row)
             THEN [db |-> d, res |-> Res("confirm", "already_confirmed", "")]
             ELSE [db |-> MarkConfirmed(d, mid, confirmer, t),
                   res |-> Res("confirm", "confirmed", "")]

\* a sweep that selects every unconfirmed row
ExpiredUnconfirmed_all(d, t) == {c \in d.confirmations : c.is_confirmed = 0}

\* the rows cleanup_expired_confirmations selects at now_iso = t
ExpiredUnconfirmed(d, t) ==
  {c \in d.confirmations : c.is_confirmed = 0 /\ c.expires_at <= t}

\* cleanup_expired_confirmations: every selected row is marked confirmed_by=0
cleanup_expired_confirmations(d, t) ==
  [d EXCEPT !.confirmations =
     {IF c \in ExpiredUnconfirmed(d, t)
        THEN [c EXCEPT !.is_confirmed = 1, !.confirmed_at = t, !.confirmed_by = 0]
        ELSE c : c \in d.confirmations}]

\* ------------------------------------------------------------ APP SETTINGS

\* _normalize_tracking_mode
NormalizeTrackingMode(value) ==
  IF value \in {"auto", "manual"} THEN value ELSE TRACKING_MODE_DEFAULT

\* set_tracking_mode_tx(mode, updated_by)
set_tracking_mode_tx(d, mode, by) ==
  LET normalized == NormalizeTrackingMode(mode)
  IN [db |-> [d EXCEPT !.tracking_mode = normalized],
      res |-> Res("trackmode",
                  IF normalized # d.tracking_mode THEN "changed" ELSE "same", "")]

\* ------------------------------------------------------------ SENDER TRUST

TrustIdx(d, key) == {i \in 1..Len(d.trust) : d.trust[i].sender_email = key}

\* sendertrust_action_tx(sender_trust_id, action, acting_user_id)
\* a block that is refused for a sender that is not approved
sendertrust_action_tx_fromapproved(d, tid, action, by) ==
  IF tid \notin 1..Len(d.trust)
  THEN [db |-> d, res |-> Res("sendertrust", "missing", "")]
  ELSE CASE action = "approve" ->
              [db |-> [d EXCEPT !.trust[tid] =
                        [@ EXCEPT !.state = "approved", !.approved_by = by,
                                  !.blocked_by = Null, !.auto_promote_at = Null]],
               res |-> Res("sendertrust", "approved", "")]
         [] action = "block" /\ d.trust[tid].state = "approved" ->
              [db |-> [d EXCEPT !.trust[tid] =
                        [@ EXCEPT !.state = "blocked", !.blocked_by = by,
                                  !.auto_promote_at = Null]],
               res |-> Res("sendertrust", "blocked", "")]
         [] OTHER -> [db |-> d, res |-> Res("sendertrust", "ignored", "")]

\* an ignore that puts the sender back into quarantine
sendertrust_action_tx_requarantine(d, tid, action, by) ==
  IF tid \notin 1..Len(d.trust)
  THEN [db |-> d, res |-> Res("sendertrust", "missing", "")]
  ELSE CASE action = "approve" ->
              [db |-> [d EXCEPT !.trust[tid] =
                        [@ EXCEPT !.state = "approved", !.approved_by = by,
                                  !.blocked_by = Null, !.auto_promote_at = Null]],
               res |-> Res("sendertrust", "approved", "")]
         [] action = "block" ->
              [db |-> [d EXCEPT !.trust[tid] =
                        [@ EXCEPT !.state = "blocked", !.blocked_by = by,
                                  !.auto_promote_at = Null]],
               res |-> Res("sendertrust", "blocked", "")]
         [] OTHER ->
              [db |-> [d EXCEPT !.trust[tid] = [@ EXCEPT !.state = "quarantine"]],
               res |-> Res("sendertrust", "ignored", "")]

sendertrust_action_tx(d, tid, action, by) ==
  IF tid \notin 1..Len(d.trust)
  THEN [db |-> d, res |-> Res("sendertrust", "missing", "")]
  ELSE CASE action = "approve" ->
              [db |-> [d EXCEPT !.trust[tid] =
                        [@ EXCEPT !.state = "approved", !.approved_by = by,
                                  !.blocked_by = Null, !.auto_promote_at = Null]],
               res |-> Res("sendertrust", "approved", "")]
         [] action = "block" ->
              [db |-> [d EXCEPT !.trust[tid] =
                        [@ EXCEPT !.state = "blocked", !.blocked_by = by,
                                  !.auto_promote_at = Null]],
               res |-> Res("sendertrust", "blocked", "")]
         [] action = "ignore" ->
              [db |-> d, res |-> Res("sendertrust", "ignored", "")]
         [] OTHER -> [db |-> d, res |-> Res("sendertrust", "invalid_action", "")]

\* ---------------------------------------------------- INGESTION PIPELINE

\* A parsed candidate as parse_zelle_email_from_gmail_message returns it with
\* status "ok" (Bask parser): amount > 0, identity_key = payer_key.
Parsed(msg, key, amount, conf) ==
  [gmail_message_id |-> msg, identity_key |-> key, amount_cents |-> amount,
   source_kind |-> "bask_zelle", confirmation_number |-> conf]

\* _insert_gmail_processed_message_in_conn; the notes JSON is kept as the
\* fields later code reads back from it, rowid is the insertion order
\* (rows are never deleted).
\* a row that does not carry the event id
ProcessedRow_noid(d, p, status, movement_id, payer_key, identity_key, dup_of) ==
  [rowid |-> Cardinality(d.processed) + 1,
   gmail_message_id |-> "",
   parsed_amount_cents |-> p.amount_cents,
   status |-> status, movement_id |-> movement_id,
   source_kind |-> p.source_kind,
   confirmation_number |-> p.confirmation_number,
   payer_key |-> payer_key, identity_key |-> identity_key,
   duplicate_of |-> dup_of]

ProcessedRow(d, p, status, movement_id, payer_key, identity_key, dup_of) ==
  [rowid |-> Cardinality(d.processed) + 1,
   gmail_message_id |-> p.gmail_message_id,
   parsed_amount_cents |-> p.amount_cents,
   status |-> status, movement_id |-> movement_id,
   source_kind |-> p.source_kind,
   confirmation_number |-> p.confirmation_number,
   payer_key |-> payer_key, identity_key |-> identity_key,
   duplicate_of |-> dup_of]

ProcessedById(d, msg) == {r \in d.processed : r.gmail_message_id = msg}

\* no event-id dedup
AlreadyProcessed_never(d, msg) == FALSE

\* the event-id dedup of process_gmail_zelle_parsed_tx (lines 1514-1518)
AlreadyProcessed(d, msg) == ProcessedById(d, msg) # {}

\* _find_gmail_processed_by_bask_confirmation_in_conn
\* a search by confirmation number alone
FindByBaskConfirmation_anyamount(d, conf, amount) ==
  IF conf = "" \/ amount <= 0 THEN {}
  ELSE {r \in d.processed : /\ r.source_kind = "bask_zelle"
                            /\ r.confirmation_number = conf}

FindByBaskConfirmation(d, conf, amount) ==
  IF conf = "" \/ amount <= 0 THEN {}
  ELSE {r \in d.processed : /\ r.parsed_amount_cents = amount
                            /\ r.source_kind = "bask_zelle"
                            /\ r.confirmation_number = conf}

\* a promotion that does not wait for auto_promote_at
PromotionDue_anytime(auto_promote_at, t) == auto_promote_at # Null

\* the promotion test of process_gmail_zelle_parsed_tx (line 1603)
PromotionDue(auto_promote_at, t) == auto_promote_at # Null /\ auto_promote_at <= t

\* a pipeline that stops no sender
IsBlockedState_never(state) == FALSE

\* the state test that stops a blocked sender (line 1618)
IsBlockedState(state) == state = "blocked"

\* a first-seen sender stored without a promotion date
NewSenderPromoteAt_null(t) == Null

\* auto_promote_at of a first-seen sender (line 1551)
NewSenderPromoteAt(t) == t + GMAIL_ZELLE_AUTO_PROMOTE_DAYS

\* a shadow status that tells a first-seen sender apart
ShadowStatus_by_sender(is_new_sender) ==
  IF is_new_sender THEN "quarantined_unknown_sender" ELSE "shadow_approved_match"

\* the status of the shadow branch (lines 1636-1648)
ShadowStatus(is_new_sender) == "shadow_approved_match"

\* a counter that stays
NextSeenCount_same(seen_count) == seen_count

\* seen_count = int(trust["seen_count"] or 0) + 1
NextSeenCount(seen_count) == seen_count + 1

\* process_gmail_zelle_parsed_tx(parsed, actor_id, mode) at time t
process_gmail_zelle_parsed_tx(d, p, actor, mode, t) ==
  LET msg == p.gmail_message_id
      key == p.identity_key
      amt == p.amount_cents
  IN
  IF amt <= 0 THEN [db |-> d, res |-> Res("process", "invalid_parsed", msg)]
  ELSE IF AlreadyProcessed(d, msg)
  THEN [db |-> d, res |-> Res("process", "duplicate", msg)]
  ELSE IF p.source_kind = "bask_zelle" /\ p.confirmation_number # ""
          /\ FindByBaskConfirmation(d, p.confirmation_number, amt) # {}
  THEN LET orig == CHOOSE r \in FindByBaskConfirmation(d, p.confirmation_number, amt) :
                      \A q \in FindByBaskConfirmation(d, p.confirmation_number, amt) :
                         r.rowid <= q.rowid
       IN [db |-> [d EXCEPT !.processed = @ \cup
                     {ProcessedRow(d, p, "ignored_duplicate", Null, key, "", orig.gmail_message_id)}],
           res |-> Res("process", "duplicate", msg)]
  ELSE
    LET idx == TrustIdx(d, key)
        is_new == idx = {}
        tid == IF is_new THEN Len(d.trust) + 1 ELSE CHOOSE i \in idx : TRUE
        old == IF is_new THEN [state |-> "quarantine", auto_promote_at |-> Null, seen_count |-> 0]
               ELSE d.trust[tid]
        promote == ~is_new /\ old.state = "quarantine" /\ PromotionDue(old.auto_promote_at, t)
        state == IF promote THEN "approved" ELSE old.state
        newrow == [sender_email |-> key, state |-> "quarantine",
                   last_seen_at |-> t, seen_count |-> 1,
                   auto_promote_at |-> NewSenderPromoteAt(t),
                   approved_by |-> Null, blocked_by |-> Null,
                   last_matched_amount_cents |-> amt]
        seen == [d.trust[tid] EXCEPT !.last_seen_at = t,
                                     !.seen_count = NextSeenCount(@),
                                     !.last_matched_amount_cents = amt]
        updrow == IF promote
                  THEN [seen EXCEPT !.state = "approved", !.approved_by = 0,
                                    !.auto_promote_at = Null]
                  ELSE seen
        d1 == [d EXCEPT !.trust = IF is_new THEN Append(d.trust, newrow)
                                  ELSE [d.trust EXCEPT ![tid] = updrow]]
    IN
    IF IsBlockedState(state)
    THEN [db |-> [d1 EXCEPT !.processed = @ \cup
                    {ProcessedRow(d, p, "blocked_sender", Null, key, key, "")}],
          res |-> Res("process", "blocked_sender", msg)]
    ELSE IF mode # "live" \/ actor = Null
    THEN [db |-> [d1 EXCEPT !.processed = @ \cup
                    {ProcessedRow(d, p, ShadowStatus(is_new), Null, key, key, "")}],
          res |-> Res("process", ShadowStatus(is_new), msg)]
    ELSE
      LET new_total == d1.total_cents + amt
          d2 == InsertMovement([d1 EXCEPT !.total_cents = new_total],
                               "add", amt, new_total)
      IN [db |-> [d2 EXCEPT !.processed = @ \cup
                    {ProcessedRow(d, p, "added", d2.mov_seq, key, key, "")}],
          res |-> Res("process", "added", msg)]

\* record_gmail_processed_message_tx(parsed, status): unmatched / parse_error
\* messages carry no amount and no notes metadata.
record_gmail_processed_message_tx(d, msg, status) ==
  IF ProcessedById(d, msg) # {}
  THEN [db |-> d, res |-> Res("record", "duplicate", msg)]
  ELSE [db |-> [d EXCEPT !.processed = @ \cup
                 {[rowid |-> Cardinality(d.processed) + 1,
                   gmail_message_id |-> msg, parsed_amount_cents |-> Null,
                   status |-> status, movement_id |-> Null, source_kind |-> "",
                   confirmation_number |-> "", payer_key |-> "",
                   identity_key |-> "", duplicate_of |-> ""]}],
        res |-> Res("record", status, msg)]

\* --------------------------------------------------------- ADMIN REVERSAL

\* no look at the reversals already recorded
AlreadyReversed_never(d, msg) == FALSE

\* the existing_rev test of admin_reverse_gmail_event_tx (lines 1390-1395)
AlreadyReversed(d, msg) == \E v \in Range(d.reversals) : v.gmail_message_id = msg

\* no look for the original movement
OriginalMovementExists_always(d, mid) == TRUE

\* the original_movement test of admin_reverse_gmail_event_tx (lines 1397-1403)
OriginalMovementExists(d, mid) == \E m \in Range(d.movements) : m.id = mid

\* a reversal without the clamp
ReversalTotal_unclamped(current_total, amount_cents) == current_total - amount_cents

\* the clamp of admin_reverse_gmail_event_tx (lines 1416-1418)
ReversalTotal(current_total, amount_cents) ==
  IF current_total - amount_cents < 0 THEN 0 ELSE current_total - amount_cents

\* admin_reverse_gmail_event_tx(gmail_message_id, acting_user_id, block_payer)
\* a reversal that never blocks
BlockApplies_never(block_payer, payer_key) == FALSE

\* if block_payer and payer_key (line 1451)
BlockApplies(block_payer, payer_key) == block_payer /\ payer_key # ""

admin_reverse_gmail_event_tx(d, msg, by, block_payer, t) ==
  LET rows == {r \in d.processed : /\ r.gmail_message_id = msg
                                   /\ r.status = "added"
                                   /\ r.movement_id # Null}
  IN
  IF rows = {} THEN [db |-> d, res |-> Res("adminrev", "missing", msg)]
  ELSE IF AlreadyReversed(d, msg)
  THEN [db |-> d, res |-> Res("adminrev", "already_reversed", msg)]
  ELSE
    LET row == CHOOSE r \in rows : TRUE
        amt == row.parsed_amount_cents
        payer_key == IF row.payer_key # "" THEN row.payer_key ELSE row.identity_key
    IN
    IF ~OriginalMovementExists(d, row.movement_id)
    THEN [db |-> d, res |-> Res("adminrev", "missing_original_movement", msg)]
    ELSE IF amt <= 0
    THEN [db |-> d, res |-> Res("adminrev", "invalid_amount", msg)]
    ELSE
      LET new_total == ReversalTotal(d.total_cents, amt)
          d1 == InsertMovement([d EXCEPT !.total_cents = new_total],
                               "reversal", amt, new_total)
          rev == [id |-> d.rev_seq + 1, gmail_message_id |-> msg,
                  original_movement_id |-> row.movement_id,
                  reversal_movement_id |-> d1.mov_seq,
                  payer_key |-> payer_key, amount_cents |-> amt]
          d2 == [d1 EXCEPT !.rev_seq = d.rev_seq + 1,
                           !.reversals = Append(d.reversals, rev)]
          d3 == IF BlockApplies(block_payer, payer_key)
                THEN [d2 EXCEPT !.trust =
                        [i \in 1..Len(d2.trust) |->
                           IF d2.trust[i].sender_email = payer_key
                           THEN [d2.trust[i] EXCEPT !.state = "blocked",
                                                    !.blocked_by = by,
                                                    !.auto_promote_at = Null]
                           ELSE d2.trust[i]]]
                ELSE d2
      IN [db |-> d3, res |-> Res("adminrev", "reversed", msg)]

\* ------------------------------------------------------------ PARTICIPANTS

\* no cap on the participants
CapReached_never(count) == FALSE

\* add_participant: participant_count() >= MAX_PARTICIPANTS
CapReached(count) == count >= MAX_PARTICIPANTS

is_participant(u) == \E i \in 1..Len(participants) : participants[i] = u

\* get_confirmer_id: the oldest participant, None when there is none
get_confirmer_id == IF participants = <<>> THEN Null ELSE participants[1]

\* _gmail_actor_id_ready
gmail_actor_id_ready ==
  IF is_participant(GMAIL_ZELLE_ACTOR_USER_ID) THEN GMAIL_ZELLE_ACTOR_USER_ID ELSE Null

\* the effective mode refresh_gmail_zelle_once computes when a cycle starts
EffectiveMode(actor, tmode) ==
  IF tmode = "manual" THEN "shadow"
  ELSE IF actor # Null THEN GMAIL_ZELLE_MODE ELSE "shadow"

\* ------------------------------------------------------------------ state

\* no poll cycle in progress
\* the tasks of the event loop: one update handler and the poll loop
Tasks == {"handler", "poll"}

\* no task has started a coroutine
TasksIdle == [t \in Tasks |-> [prog |-> "", at |-> 0]]

\* gmail_zelle_poll_loop between two cycles
LoopIdle == [status |-> "sleeping", fetched |-> {}]

PollIdle == [running |-> FALSE, actor_id |-> Null, effective_mode |-> "shadow"]

\* whether the call site of an operation runs it inside "async with
\* STATE_LOCK": every handler's transaction and the sweep do, as does the
\* ingestion of a parsed event (line 3352); add_participant in start (3995)
\* and record_gmail_processed_message_tx in the poll loop (3337, 3345) are
\* called outside of it.
HoldsStateLock(op) == op \notin {"start", "record"}

Init ==
  /\ total_cents = InitDB.total_cents
  /\ session_id = InitDB.session_id
  /\ movements = InitDB.movements
  /\ mov_seq = InitDB.mov_seq
  /\ confirmations = InitDB.confirmations
  /\ releases = InitDB.releases
  /\ rel_seq = InitDB.rel_seq
  /\ processed = InitDB.processed
  /\ trust = InitDB.trust
  /\ reversals = InitDB.reversals
  /\ rev_seq = InitDB.rev_seq
  /\ tracking_mode = InitDB.tracking_mode
  /\ participants = <<>>
  /\ poll = PollIdle
  /\ now = 0
  /\ last = NoCall
  /\ STATE_LOCK = ""
  /\ pc = TasksIdle
  /\ loop = LoopIdle

\* The bot once its owner has sent /start: the state Start(1) leads to from
\* Init.  The specifications that leave the registration order aside start here.
InitOwner ==
  /\ total_cents = InitDB.total_cents
  /\ session_id = InitDB.session_id
  /\ movements = InitDB.movements
  /\ mov_seq = InitDB.mov_seq
  /\ confirmations = InitDB.confirmations
  /\ releases = InitDB.releases
  /\ rel_seq = InitDB.rel_seq
  /\ processed = InitDB.processed
  /\ trust = InitDB.trust
  /\ reversals = InitDB.reversals
  /\ rev_seq = InitDB.rev_seq
  /\ tracking_mode = InitDB.tracking_mode
  /\ participants = <<1>>
  /\ poll = PollIdle
  /\ now = 0
  /\ last = Res("start", "added", "")
  /\ STATE_LOCK = ""
  /\ pc = TasksIdle
  /\ loop = LoopIdle

\* A handler ran the transaction whose outcome is r on the store.
\* a notification whose failure takes the record of its event back
NotifyOutcome_forget(d, msg, sent) ==
  IF sent THEN d
  ELSE [d EXCEPT !.processed = {r \in @ : r.gmail_message_id # msg}]

\* notify_for_app: the store after the notification of an outcome; a send
\* that raises is caught and logged, and the store is not touched
NotifyOutcome(d, msg, sent) == d

\* ------------------------------------------------- FAILING TRANSACTIONS

\* the tables each transaction writes, in the order of its statements
AddWriteOrder == <<{"total_cents"}, {"movements"}, {"confirmations"}>>

ReleaseWriteOrder == <<{"releases"}, {"movements"}, {"total_cents", "session_id"}>>

UndoWriteOrder(kind) ==
  CASE kind = "add" -> <<{"session_id"}, {"confirmations"}, {"total_cents"}, {"movements"}>>
    [] kind = "release" -> <<{"session_id", "total_cents"}, {"releases"}, {"movements"}>>
    [] kind = "reversal" -> <<{"total_cents"}, {"reversals"}, {"movements"}>>
    [] OTHER -> <<>>

ProcessWriteOrder == <<{"trust"}, {"total_cents"}, {"movements"}, {"processed"}>>

ReverseWriteOrder == <<{"total_cents"}, {"movements"}, {"reversals"}, {"trust"}>>

\* the tables written by the first k statements
Written(order, k) == UNION {order[i] : i \in 1..k}

\* the uncommitted store of a transaction that ran from store d towards
\* store final and has written the tables of w
Partial(d, final, w) ==
  [total_cents |-> IF "total_cents" \in w THEN final.total_cents ELSE d.total_cents,
   session_id |-> IF "session_id" \in w THEN final.session_id ELSE d.session_id,
   movements |-> IF "movements" \in w THEN final.movements ELSE d.movements,
   mov_seq |-> IF "movements" \in w THEN final.mov_seq ELSE d.mov_seq,
   confirmations |-> IF "confirmations" \in w THEN final.confirmations
                     ELSE d.confirmations,
   releases |-> IF "releases" \in w THEN final.releases ELSE d.releases,
   rel_seq |-> IF "releases" \in w THEN final.rel_seq ELSE d.rel_seq,
   processed |-> IF "processed" \in w THEN final.processed ELSE d.processed,
   trust |-> IF "trust" \in w THEN final.trust ELSE d.trust,
   reversals |-> IF "reversals" \in w THEN final.reversals ELSE d.reversals,
   rev_seq |-> IF "reversals" \in w THEN final.rev_seq ELSE d.rev_seq,
   tracking_mode |-> d.tracking_mode]

\* a connection that keeps what was written when its block raises
Rollback_keep(d, partial) == partial

\* "with db() as conn": the connection rolls back when the block raises
Rollback(d, partial) == d

\* the transaction r, started on store d, raises after k of its statements
CallFailing(d, r, order, k) ==
  /\ k \in 0..Len(order)
  /\ Commit(Rollback(d, Partial(d, r.db, Written(order, k))))
  /\ last' = Res(r.res.op, "error", r.res.msg)

Call(r) ==
  /\ Commit(r.db)
  /\ last' = r.res

\* Every handler starts with cleanup_expired_confirmations.
Swept == cleanup_expired_confirmations(DB, now)

\* ---------------------------------------------------------------- handlers

\* start: /start registers the sender unless the cap is reached
Start(u) ==
  /\ ~is_participant(u)
  /\ participants' = IF CapReached(Len(participants))
                     THEN participants ELSE Append(participants, u)
  /\ Call([db |-> Swept,
           res |-> Res("start", IF CapReached(Len(participants))
                                THEN "full" ELSE "added", "")])
  /\ UNCHANGED <<poll, now, taskVars>>

\* on_message from a participant who is not typing an amount: only the sweep
SweepOnly(u) ==
  /\ is_participant(u)
  /\ Call([db |-> Swept, res |-> Res("sweep", "ok", "")])
  /\ UNCHANGED <<participants, poll, now, taskVars>>

\* on_button "trackmode:<mode>": confirmer only
SetTrackingMode(u, mode) ==
  /\ is_participant(u)
  /\ u = get_confirmer_id
  /\ Call(set_tracking_mode_tx(Swept, mode, u))
  /\ UNCHANGED <<participants, poll, now, taskVars>>

\* on_button "add:<amount>" / on_message with a custom amount: manual mode only
ManualAdd(u, x) ==
  /\ is_participant(u)
  /\ tracking_mode = "manual"
  /\ mov_seq < MaxMov
  /\ Call(add_amount_with_confirmation(Swept, u, x, now))
  /\ UNCHANGED <<participants, poll, now, taskVars>>

\* on_button "release"
Release(u) ==
  /\ is_participant(u)
  /\ mov_seq < MaxMov
  /\ Call(release_current_total(Swept, u))
  /\ UNCHANGED <<participants, poll, now, taskVars>>

\* on_button "undo" -> undo_last: manual mode only
\* on_message: the custom amount text of a participant who was asked for one
CustomAmount(u, text) ==
  /\ is_participant(u)
  /\ tracking_mode = "manual"
  /\ mov_seq < MaxMov
  /\ LET parsed == money_to_cents(text)
     IN IF ~parsed.ok
        THEN Call([db |-> Swept, res |-> Res("add", "invalid", "")])
        ELSE Call(add_amount_with_confirmation(Swept, u, parsed.cents, now))
  /\ UNCHANGED <<participants, poll, now, taskVars>>

Undo(u) ==
  /\ is_participant(u)
  /\ tracking_mode = "manual"
  /\ Call(undo_last_movement_tx(Swept))
  /\ UNCHANGED <<participants, poll, now, taskVars>>

\* on_button "confirm:<movement_id>": confirmer only
Confirm(u, mid) ==
  /\ is_participant(u)
  /\ u = get_confirmer_id
  /\ Call(confirm_movement_tx(Swept, mid, u, now))
  /\ UNCHANGED <<participants, poll, now, taskVars>>

\* on_button "sendertrust:<action>:<id>": confirmer only
SenderTrustAction(u, tid, action) ==
  /\ is_participant(u)
  /\ u = get_confirmer_id
  /\ Call(sendertrust_action_tx(Swept, tid, action, u))
  /\ UNCHANGED <<participants, poll, now, taskVars>>

\* on_button "adminrev:do:<id>" / "adminrev:block_and_do:<id>": confirmer only
AdminReverse(u, msg, block_payer) ==
  /\ is_participant(u)
  /\ u = get_confirmer_id
  /\ mov_seq < MaxMov
  /\ Call(admin_reverse_gmail_event_tx(Swept, msg, u, block_payer, now))
  /\ UNCHANGED <<participants, poll, now, taskVars>>

\* refresh_gmail_zelle_once, up to the fetch: actor and mode are read once
PollStart ==
  /\ ~poll.running
  /\ poll' = [running |-> TRUE, actor_id |-> gmail_actor_id_ready,
              effective_mode |-> EffectiveMode(gmail_actor_id_ready, tracking_mode)]
  /\ UNCHANGED <<storeVars, participants, now, last, taskVars>>

\* refresh_gmail_zelle_once, one message that parsed "ok"
PollProcess(msg, key, amount, conf) ==
  /\ poll.running
  /\ mov_seq < MaxMov
  /\ Call(process_gmail_zelle_parsed_tx(DB, Parsed(msg, key, amount, conf),
                                        poll.actor_id, poll.effective_mode, now))
  /\ UNCHANGED <<participants, poll, now, taskVars>>

\* refresh_gmail_zelle_once, the notification of the outcome of the message
\* just processed: sent tells whether the transport delivered it
PollNotify(sent) ==
  /\ poll.running
  /\ last.op = "process"
  /\ last.status \in {"shadow_approved_match", "added"}
  /\ Call([db |-> NotifyOutcome(DB, last.msg, sent),
           res |-> Res("notify", IF sent THEN "sent" ELSE "failed", last.msg)])
  /\ UNCHANGED <<participants, poll, now, taskVars>>

\* pending_confirmations_count at now_iso = t: the unconfirmed rows that
\* have not expired
pending_confirmations_count(d, t) ==
  Cardinality({c \in d.confirmations : c.is_confirmed = 0 /\ c.expires_at > t})

\* refresh_gmail_zelle_once, the panel refresh after a cycle that processed
\* a message (panel_changed): update_all_panels_for_app renders the pending
\* count; no sweep is run
PollPanels ==
  /\ poll.running
  /\ last.op = "process"
  /\ last.status \in {"blocked_sender", "shadow_approved_match", "added"}
  /\ last' = Res("panel", IF pending_confirmations_count(DB, now) > 0
                          THEN "pending" ELSE "none", "")
  /\ UNCHANGED <<storeVars, participants, poll, now, taskVars>>

\* refresh_gmail_zelle_once, one message that did not parse
PollRecord(msg, status) ==
  /\ poll.running
  /\ Call(record_gmail_processed_message_tx(DB, msg, status))
  /\ UNCHANGED <<participants, poll, now, taskVars>>

\* refresh_gmail_zelle_once, after the last fetched message
PollEnd ==
  /\ poll.running
  /\ poll' = PollIdle
  /\ UNCHANGED <<storeVars, participants, now, last, taskVars>>

\* the add: button, its transaction raising after k statements
ManualAddFails(u, x, k) ==
  /\ is_participant(u)
  /\ tracking_mode = "manual"
  /\ mov_seq < MaxMov
  /\ CallFailing(Swept, add_amount_with_confirmation(Swept, u, x, now),
                 AddWriteOrder, k)
  /\ UNCHANGED <<participants, poll, now, taskVars>>

\* the release button, its transaction raising after k statements
ReleaseFails(u, k) ==
  /\ is_participant(u)
  /\ mov_seq < MaxMov
  /\ CallFailing(Swept, release_current_total(Swept, u), ReleaseWriteOrder, k)
  /\ UNCHANGED <<participants, poll, now, taskVars>>

\* the undo button, its transaction raising after k statements
UndoFails(u, k) ==
  /\ is_participant(u)
  /\ tracking_mode = "manual"
  /\ Swept.movements # <<>>
  /\ CallFailing(Swept, undo_last_movement_tx(Swept),
                 UndoWriteOrder(Last(Swept.movements).kind), k)
  /\ UNCHANGED <<participants, poll, now, taskVars>>

\* the admin reversal, its transaction raising after k statements
AdminReverseFails(u, msg, block_payer, k) ==
  /\ is_participant(u)
  /\ u = get_confirmer_id
  /\ mov_seq < MaxMov
  /\ CallFailing(Swept, admin_reverse_gmail_event_tx(Swept, msg, u, block_payer, now),
                 ReverseWriteOrder, k)
  /\ UNCHANGED <<participants, poll, now, taskVars>>

\* the ingestion of one parsed message, its transaction raising after k
\* statements
PollProcessFails(msg, key, amount, conf, k) ==
  /\ poll.running
  /\ mov_seq < MaxMov
  /\ CallFailing(DB, process_gmail_zelle_parsed_tx(DB, Parsed(msg, key, amount, conf),
                                        poll.actor_id, poll.effective_mode, now),
                 ProcessWriteOrder, k)
  /\ UNCHANGED <<participants, poll, now, taskVars>>

\* ------------------------------------------------ TASKS AND STATE_LOCK

\* the steps that wait for the network
IOSteps == {"answer", "fetch", "send", "delete", "panel"}

\* cleanup_expired_confirmations: the sweep under the lock, then the
\* deletion of the confirmation messages
cleanup_program == <<"acquire", "sweep", "release", "delete">>

\* coroutines that notify before they leave the lock
Program_notify_locked(name) ==
  CASE name = "undo_last" ->
         cleanup_program \o <<"acquire", "tx", "delete", "send", "release", "panel">>
    [] name = "on_button_add" ->
         <<"answer">> \o cleanup_program
            \o <<"acquire", "tx", "send", "release", "send", "panel">>
    [] name = "refresh_gmail_zelle_once" ->
         <<"fetch", "acquire", "tx", "send", "release", "panel">>
    [] OTHER -> <<>>

\* the awaits and lock blocks of a coroutine, in program order: undo_last
\* (lines 3919-3953), the add: branch of on_button (4011-4086) and
\* refresh_gmail_zelle_once with one fetched message (3303-3411)
Program(name) ==
  CASE name = "undo_last" ->
         cleanup_program \o <<"acquire", "tx", "release", "delete", "send", "panel">>
    [] name = "on_button_add" ->
         <<"answer">> \o cleanup_program
            \o <<"acquire", "tx", "release", "send", "send", "panel">>
    [] name = "refresh_gmail_zelle_once" ->
         <<"fetch", "acquire", "tx", "release", "send", "panel">>
    [] OTHER -> <<>>

\* the coroutines a task runs
ProgramsOf(t) ==
  IF t = "poll" THEN {"refresh_gmail_zelle_once"} ELSE {"undo_last", "on_button_add"}

\* a task starts a coroutine
TaskStart(t, name) ==
  /\ pc[t].prog = ""
  /\ name \in ProgramsOf(t)
  /\ pc' = [pc EXCEPT ![t] = [prog |-> name, at |-> 0]]
  /\ UNCHANGED <<storeVars, participants, poll, now, last, STATE_LOCK, loop>>

\* a task runs the next step of its coroutine; "async with STATE_LOCK" waits
\* until the lock is free. (The sweep and the transaction of a step change
\* the store as the handler actions above say; this view keeps the order of
\* the steps only.)
TaskStep(t) ==
  /\ pc[t].prog # ""
  /\ pc[t].at < Len(Program(pc[t].prog))
  /\ LET step == Program(pc[t].prog)[pc[t].at + 1]
     IN /\ step = "acquire" => STATE_LOCK = ""
        /\ STATE_LOCK' = CASE step = "acquire" -> t
                           [] step = "release" -> ""
                           [] OTHER -> STATE_LOCK
        /\ last' = Res(step, IF STATE_LOCK' = t THEN "locked" ELSE "unlocked", t)
  /\ pc' = [pc EXCEPT ![t].at = @ + 1]
  /\ UNCHANGED <<storeVars, participants, poll, now, loop>>

\* the coroutine of a task returns
TaskEnd(t) ==
  /\ pc[t].prog # ""
  /\ pc[t].at = Len(Program(pc[t].prog))
  /\ pc' = [pc EXCEPT ![t] = [prog |-> "", at |-> 0]]
  /\ UNCHANGED <<storeVars, participants, poll, now, last, STATE_LOCK, loop>>

\* ----------------------------------------------------- THE POLL LOOP

\* a loop that ends on the first cycle that raises
AfterCycleError_stop == "stopped"

\* gmail_zelle_poll_loop, "except Exception": the error is logged and the
\* loop goes on to its sleep
AfterCycleError == "sleeping"

\* the messages a fetch may return: filter_unprocessed_gmail_message_ids
\* keeps the ids that have no row
Unprocessed == {m \in MsgIds : ProcessedById(DB, m) = {}}

\* the sleep of the loop ends and refresh_gmail_zelle_once is called: it
\* reads the actor and the tracking mode, then awaits the fetch
LoopCycleStart ==
  /\ loop.status = "sleeping"
  /\ loop' = [status |-> "fetching", fetched |-> {}]
  /\ poll' = [running |-> TRUE, actor_id |-> gmail_actor_id_ready,
              effective_mode |-> EffectiveMode(gmail_actor_id_ready, tracking_mode)]
  /\ UNCHANGED <<storeVars, participants, now, last, STATE_LOCK, pc>>

\* the fetch returns messages that have no row
LoopFetched(F) ==
  /\ loop.status = "fetching"
  /\ F \subseteq Unprocessed
  /\ loop' = [status |-> "cycle", fetched |-> F]
  /\ last' = Res("fetch", "ok", "")
  /\ UNCHANGED <<storeVars, participants, poll, now, STATE_LOCK, pc>>

\* the fetch raises: refresh_gmail_zelle_once logs and returns
LoopFetchFails ==
  /\ loop.status = "fetching"
  /\ loop' = LoopIdle
  /\ poll' = PollIdle
  /\ last' = Res("fetch", "error", "")
  /\ UNCHANGED <<storeVars, participants, now, STATE_LOCK, pc>>

\* the cycle processes the next fetched message
LoopProcess(msg, key, amount) ==
  /\ loop.status = "cycle"
  /\ msg \in loop.fetched
  /\ mov_seq < MaxMov
  /\ Call(process_gmail_zelle_parsed_tx(DB, Parsed(msg, key, amount, ""),
                                        poll.actor_id, poll.effective_mode, now))
  /\ loop' = [loop EXCEPT !.fetched = @ \ {msg}]
  /\ UNCHANGED <<participants, poll, now, STATE_LOCK, pc>>

\* the processing of a fetched message raises (its transaction, rolled
\* back, or the code after it): the exception leaves refresh_gmail_zelle_once
\* and is caught by the loop
LoopProcessRaises(msg) ==
  /\ loop.status = "cycle"
  /\ msg \in loop.fetched
  /\ loop' = [status |-> AfterCycleError, fetched |-> {}]
  /\ poll' = PollIdle
  /\ last' = Res("process", "error", msg)
  /\ UNCHANGED <<storeVars, participants, now, STATE_LOCK, pc>>

\* the cycle has handled every fetched message and returns
LoopCycleEnd ==
  /\ loop.status = "cycle"
  /\ loop.fetched = {}
  /\ loop' = LoopIdle
  /\ poll' = PollIdle
  /\ UNCHANGED <<storeVars, participants, now, last, STATE_LOCK, pc>>

\* on_app_shutdown: task.cancel() raises CancelledError in the loop where it
\* is suspended: in its sleep, in the fetch, or in the notification of the
\* message it has just added or shadowed
Shutdown ==
  /\ \/ loop.status \in {"sleeping", "fetching"}
     \/ /\ loop.status = "cycle"
        /\ last.op = "process"
        /\ last.status \in {"added", "shadow_approved_match"}
  /\ loop' = [loop EXCEPT !.status = "stopped"]
  /\ poll' = PollIdle
  /\ last' = Res("shutdown", "cancelled", "")
  /\ UNCHANGED <<storeVars, participants, now, STATE_LOCK, pc>>

\* the steps of the poll loop task
LoopTask ==
  \/ LoopCycleStart
  \/ \E F \in SUBSET MsgIds : LoopFetched(F)
  \/ LoopFetchFails
  \/ \E msg \in MsgIds, amount \in EventAmounts : LoopProcess(msg, "a", amount)
  \/ \E msg \in MsgIds : LoopProcessRaises(msg)
  \/ LoopCycleEnd

\* ------------------------------------------------- PRIVILEGED REQUESTS
\* on_button, any identity pressing a privileged button: a press by an
\* identity that is no participant returns at once, a press by a participant
\* runs the sweep, and the branch returns unless the presser is the confirmer.

\* every participant passes the confirmer check
IsConfirmer_any(u) == TRUE

\* "if not confirmer_id or user.id != confirmer_id: return", negated
IsConfirmer(u) == get_confirmer_id # Null /\ u = get_confirmer_id

\* the press of a privileged button by identity u, r being what the
\* transaction of the branch returns on the swept store
PrivilegedPress(u, op, r) ==
  IF ~is_participant(u) THEN [db |-> DB, res |-> Res(op, "ignored", "")]
  ELSE IF ~IsConfirmer(u) THEN [db |-> Swept, res |-> Res(op, "denied", "")]
  ELSE r

\* on_button "trackmode:<mode>", pressed by anyone
TrackModeRequest(u, mode) ==
  /\ Call(PrivilegedPress(u, "trackmode", set_tracking_mode_tx(Swept, mode, u)))
  /\ UNCHANGED <<participants, poll, now, taskVars>>

\* on_button "confirm:<movement_id>", pressed by anyone
ConfirmRequest(u, mid) ==
  /\ Call(PrivilegedPress(u, "confirm", confirm_movement_tx(Swept, mid, u, now)))
  /\ UNCHANGED <<participants, poll, now, taskVars>>

\* on_button "sendertrust:<action>:<id>", pressed by anyone
SenderTrustRequest(u, tid, action) ==
  /\ Call(PrivilegedPress(u, "sendertrust",
                          sendertrust_action_tx(Swept, tid, action, u)))
  /\ UNCHANGED <<participants, poll, now, taskVars>>

\* on_button "adminrev:do:<id>" / "adminrev:block_and_do:<id>", pressed by anyone
AdminReverseRequest(u, msg, block_payer) ==
  /\ mov_seq < MaxMov
  /\ Call(PrivilegedPress(u, "adminrev",
            admin_reverse_gmail_event_tx(Swept, msg, u, block_payer, now)))
  /\ UNCHANGED <<participants, poll, now, taskVars>>

\* a day passes
Tick ==
  /\ now < MaxNow
  /\ now' = now + 1
  /\ UNCHANGED <<storeVars, participants, poll, last, taskVars>>

\* Every handler.
Next ==
  \/ \E u \in Users : Start(u)
  \/ \E u \in Users : SweepOnly(u)
  \/ \E u \in Users, mode \in {"auto", "manual"} : SetTrackingMode(u, mode)
  \/ \E u \in Users, x \in AddAmounts : ManualAdd(u, x)
  \/ \E u \in Users, text \in AmountTexts : CustomAmount(u, text)
  \/ \E u \in Users : Release(u)
  \/ \E u \in Users : Undo(u)
  \/ \E u \in Users, mid \in 1..MaxMov : Confirm(u, mid)
  \/ \E u \in Users, tid \in 1..Cardinality(Identities),
        action \in {"approve", "block", "ignore"} : SenderTrustAction(u, tid, action)
  \/ \E u \in Users, msg \in MsgIds, b \in BOOLEAN : AdminReverse(u, msg, b)
  \/ PollStart
  \/ \E msg \in MsgIds, key \in Identities, amount \in EventAmounts,
        conf \in ConfNumbers : PollProcess(msg, key, amount, conf)
  \/ \E msg \in MsgIds, status \in {"ignored_unmatched", "parse_error"} :
        PollRecord(msg, status)
  \/ \E sent \in BOOLEAN : PollNotify(sent)
  \/ PollPanels
  \/ PollEnd
  \/ Tick

Spec == Init /\ [][Next]_vars

\* The manual ledger alone: add, release, undo (and what enables them).
NextLedger ==
  \/ \E u \in Users : Start(u)
  \/ \E u \in Users, mode \in {"auto", "manual"} : SetTrackingMode(u, mode)
  \/ \E u \in Users, x \in AddAmounts : ManualAdd(u, x)
  \/ \E u \in Users : Release(u)
  \/ \E u \in Users : Undo(u)

SpecLedger == Init /\ [][NextLedger]_vars

\* Every handler that writes the total: the manual ledger, the ingestion of
\* events and the admin reversal.
NextTotal ==
  \/ \E u \in Users : Start(u)
  \/ \E u \in Users, mode \in {"auto", "manual"} : SetTrackingMode(u, mode)
  \/ \E u \in Users : ManualAdd(u, 1)
  \/ \E u \in Users : Release(u)
  \/ \E u \in Users : Undo(u)
  \/ \E u \in Users, msg \in MsgIds : AdminReverse(u, msg, FALSE)
  \/ PollStart
  \/ \E msg \in MsgIds, amount \in EventAmounts : PollProcess(msg, "a", amount, "")
  \/ PollEnd

SpecTotal == InitOwner /\ [][NextTotal]_vars

\* The two dedup checks of the ingestion pipeline, interleaved with undo,
\* release, trust decisions and mode changes.
NextDedup ==
  \/ \E u \in Users : Start(u)
  \/ \E u \in Users, mode \in {"auto", "manual"} : SetTrackingMode(u, mode)
  \/ \E u \in Users : Release(u)
  \/ \E u \in Users : Undo(u)
  \/ \E u \in Users, action \in {"approve", "block"} : SenderTrustAction(u, 1, action)
  \/ PollStart
  \/ \E msg \in MsgIds, amount \in EventAmounts, conf \in ConfNumbers :
        PollProcess(msg, "a", amount, conf)
  \/ PollEnd

SpecDedup == InitOwner /\ [][NextDedup]_vars

\* The ingestion pipeline and the sender-trust table over time.
NextTrust ==
  \/ \E u \in Users : Start(u)
  \/ \E u \in Users, mode \in {"auto", "manual"} : SetTrackingMode(u, mode)
  \/ \E u \in Users, tid \in 1..Cardinality(Identities),
        action \in {"approve", "block", "ignore"} : SenderTrustAction(u, tid, action)
  \/ PollStart
  \/ \E msg \in MsgIds, key \in Identities, amount \in EventAmounts :
        PollProcess(msg, key, amount, "")
  \/ PollEnd
  \/ Tick

SpecTrust == InitOwner /\ [][NextTrust]_vars

\* The confirmation rows: manual adds, their approval, their undo, and the
\* sweep as the clock advances.
NextConfirm ==
  \/ \E u \in Users : SweepOnly(u)
  \/ \E u \in Users, mode \in {"auto", "manual"} : SetTrackingMode(u, mode)
  \/ \E u \in Users : ManualAdd(u, 1)
  \/ \E u \in Users : Undo(u)
  \/ \E u \in Users, mid \in 1..MaxMov : Confirm(u, mid)
  \/ Tick

SpecConfirm == InitOwner /\ [][NextConfirm]_vars

\* The admin reversal, with and without the block of the payer, around the
\* ingestion of the events of one identity, the trust decisions on it, the
\* undo and the clock.
NextReverse ==
  \/ \E u \in Users : Start(u)
  \/ \E u \in Users, mode \in {"auto", "manual"} : SetTrackingMode(u, mode)
  \/ \E u \in Users : Undo(u)
  \/ \E u \in Users, action \in {"approve", "block", "ignore"} :
        SenderTrustAction(u, 1, action)
  \/ \E u \in Users, msg \in MsgIds, b \in BOOLEAN : AdminReverse(u, msg, b)
  \/ PollStart
  \/ \E msg \in MsgIds, amount \in EventAmounts : PollProcess(msg, "a", amount, "")
  \/ PollEnd
  \/ Tick

SpecReverse == InitOwner /\ [][NextReverse]_vars

\* The poll cycle with messages that parse and messages that do not.
NextRecord ==
  \/ \E u \in Users, mode \in {"auto", "manual"} : SetTrackingMode(u, mode)
  \/ \E u \in Users : Undo(u)
  \/ PollStart
  \/ \E msg \in MsgIds, amount \in EventAmounts : PollProcess(msg, "a", amount, "")
  \/ \E msg \in MsgIds, status \in {"ignored_unmatched", "parse_error"} :
        PollRecord(msg, status)
  \/ PollEnd

SpecRecord == InitOwner /\ [][NextRecord]_vars

\* The ledger operations, each of which may raise partway (the movements
\* that are released, undone and reversed are those of the ingestion).
NextFail ==
  \/ \E u \in Users : Start(u)
  \/ \E u \in Users, mode \in {"auto", "manual"} : SetTrackingMode(u, mode)
  \/ \E u \in Users : Release(u)
  \/ \E u \in Users : Undo(u)
  \/ \E u \in Users, msg \in MsgIds : AdminReverse(u, msg, TRUE)
  \/ PollStart
  \/ \E msg \in MsgIds, amount \in EventAmounts : PollProcess(msg, "a", amount, "")
  \/ PollEnd
  \/ \E u \in Users, k \in 0..Len(AddWriteOrder) : ManualAddFails(u, 1, k)
  \/ \E u \in Users, k \in 0..Len(ReleaseWriteOrder) : ReleaseFails(u, k)
  \/ \E u \in Users, k \in 0..Len(UndoWriteOrder("add")) : UndoFails(u, k)
  \/ \E u \in Users, msg \in MsgIds, k \in 0..Len(ReverseWriteOrder) :
        AdminReverseFails(u, msg, TRUE, k)
  \/ \E msg \in MsgIds, amount \in EventAmounts, k \in 0..Len(ProcessWriteOrder) :
        PollProcessFails(msg, "a", amount, "", k)

SpecFail == InitOwner /\ [][NextFail]_vars

\* The poll cycle with the notification of each outcome.
NextNotify ==
  \/ \E u \in Users : Start(u)
  \/ \E u \in Users, mode \in {"auto", "manual"} : SetTrackingMode(u, mode)
  \/ PollStart
  \/ \E msg \in MsgIds, amount \in EventAmounts : PollProcess(msg, "a", amount, "")
  \/ \E sent \in BOOLEAN : PollNotify(sent)
  \/ PollEnd

SpecNotify == InitOwner /\ [][NextNotify]_vars

\* the identities that send /start: the users and one more
Registrants == Users \cup {3}

\* Registration by more identities than the cap admits, next to manual adds
\* whose confirmations expire.
NextStart ==
  \/ \E u \in Registrants : Start(u)
  \/ \E u \in Users, mode \in {"auto", "manual"} : SetTrackingMode(u, mode)
  \/ \E u \in Users : ManualAdd(u, 1)
  \/ Tick

SpecStart == Init /\ [][NextStart]_vars

\* the amounts of the events that share a confirmation number
DedupAmounts == {2, 3}

\* The poll cycle over events of two amounts and two identities, with and
\* without a confirmation number.
NextSecondary ==
  \/ \E u \in Users : Start(u)
  \/ \E u \in Users, mode \in {"auto", "manual"} : SetTrackingMode(u, mode)
  \/ PollStart
  \/ \E msg \in MsgIds, key \in Identities, amount \in DedupAmounts,
        conf \in ConfNumbers : PollProcess(msg, key, amount, conf)
  \/ PollEnd

SpecSecondary == InitOwner /\ [][NextSecondary]_vars

\* The trust bookkeeping: events of two amounts from two identities, over
\* the days, with the confirmer approving and blocking.
NextSeen ==
  \/ \E u \in Users : Start(u)
  \/ \E u \in Users, tid \in 1..Cardinality(Identities),
        action \in {"approve", "block"} : SenderTrustAction(u, tid, action)
  \/ PollStart
  \/ \E msg \in MsgIds, key \in Identities, amount \in DedupAmounts :
        PollProcess(msg, key, amount, "")
  \/ PollEnd
  \/ Tick

SpecSeen == InitOwner /\ [][NextSeen]_vars

\* Admin reversals, with and without the block of the payer, of the events
\* of two identities; no manual trust action.
NextBlock ==
  \/ \E u \in Users : Start(u)
  \/ \E u \in Users, msg \in MsgIds, b \in BOOLEAN : AdminReverse(u, msg, b)
  \/ PollStart
  \/ \E msg \in MsgIds, key \in Identities, amount \in EventAmounts :
        PollProcess(msg, key, amount, "")
  \/ PollEnd
  \/ Tick

SpecBlock == InitOwner /\ [][NextBlock]_vars

\* The tasks of the event loop, step by step.
NextLock ==
  \/ \E t \in Tasks, name \in {"undo_last", "on_button_add", "refresh_gmail_zelle_once"} :
        TaskStart(t, name)
  \/ \E t \in Tasks : TaskStep(t)
  \/ \E t \in Tasks : TaskEnd(t)

SpecLock == InitOwner /\ [][NextLock]_vars

\* The poll loop with cycles that fail and a shutdown. The event loop runs
\* a task that is ready, the sleep of the loop ends and the fetch returns or
\* raises: the loop task takes a step whenever it can.
NextLoop ==
  \/ \E u \in Users : Start(u)
  \/ \E u \in Users, mode \in {"auto", "manual"} : SetTrackingMode(u, mode)
  \/ LoopTask
  \/ Shutdown

SpecLoop == InitOwner /\ [][NextLoop]_vars /\ WF_vars(LoopTask)

\* The panels refreshed by the poll cycle, next to manual adds whose
\* confirmations expire.
NextPanel ==
  \/ \E u \in Users, mode \in {"auto", "manual"} : SetTrackingMode(u, mode)
  \/ \E u \in Users : ManualAdd(u, 1)
  \/ PollStart
  \/ \E msg \in MsgIds, amount \in EventAmounts : PollProcess(msg, "a", amount, "")
  \/ PollPanels
  \/ PollEnd
  \/ Tick

SpecPanel == InitOwner /\ [][NextPanel]_vars

\* The custom amounts: registration, the tracking mode, the amount texts the
\* participants send, and undo.
NextAmount ==
  \/ \E u \in Users : Start(u)
  \/ \E u \in Users, mode \in {"auto", "manual"} : SetTrackingMode(u, mode)
  \/ \E u \in Users, text \in AmountTexts : CustomAmount(u, text)
  \/ \E u \in Users : Undo(u)

SpecAmount == Init /\ [][NextAmount]_vars

\* totals the fee computation is run on: every small one and the $1,000.00 one
FeeTotals == (1..MaxFeeTotal) \cup {100000}

\* The bot after its owner sent /start, switched to manual tracking and added
\* one amount: the state from which a release computes fee and net of it.
InitFee ==
  \E T \in FeeTotals :
    LET d == add_amount_with_confirmation(
               [InitDB EXCEPT !.tracking_mode = "manual"], 1, T, 0).db
    IN /\ total_cents = d.total_cents
       /\ session_id = d.session_id
       /\ movements = d.movements
       /\ mov_seq = d.mov_seq
       /\ confirmations = d.confirmations
       /\ releases = d.releases
       /\ rel_seq = d.rel_seq
       /\ processed = d.processed
       /\ trust = d.trust
       /\ reversals = d.reversals
       /\ rev_seq = d.rev_seq
       /\ tracking_mode = d.tracking_mode
       /\ participants = <<1>>
       /\ poll = PollIdle
       /\ now = 0
       /\ last = Res("add", "ok", "")
       /\ STATE_LOCK = ""
       /\ pc = TasksIdle
       /\ loop = LoopIdle

\* The release of one total, and its undo.
NextFee ==
  \/ \E u \in Users : Release(u)
  \/ \E u \in Users : Undo(u)

SpecFee == InitFee /\ [][NextFee]_vars

\* The bot after both participants sent /start, one event of a new sender
\* was ingested in auto mode, the confirmer switched to manual tracking and
\* the other participant added one amount.
InitPriv ==
  LET d1 == process_gmail_zelle_parsed_tx(InitDB, Parsed("m1", "a", 2, ""),
                                          GMAIL_ZELLE_ACTOR_USER_ID, GMAIL_ZELLE_MODE, 0).db
      d2 == set_tracking_mode_tx(d1, "manual", 1).db
      d == add_amount_with_confirmation(d2, 2, 1, 0).db
  IN /\ total_cents = d.total_cents
     /\ session_id = d.session_id
     /\ movements = d.movements
     /\ mov_seq = d.mov_seq
     /\ confirmations = d.confirmations
     /\ releases = d.releases
     /\ rel_seq = d.rel_seq
     /\ processed = d.processed
     /\ trust = d.trust
     /\ reversals = d.reversals
     /\ rev_seq = d.rev_seq
     /\ tracking_mode = d.tracking_mode
     /\ participants = <<1, 2>>
     /\ poll = PollIdle
     /\ now = 0
     /\ last = Res("add", "ok", "")
     /\ STATE_LOCK = ""
     /\ pc = TasksIdle
     /\ loop = LoopIdle

\* Privileged buttons pressed by the confirmer, by the other participant and
\* by an identity that is no participant, over a ledger with a manual add,
\* an ingested event and confirmations that expire.
NextPriv ==
  \/ \E u \in Registrants : Start(u)
  \/ \E u \in Registrants, mode \in {"auto", "manual"} : TrackModeRequest(u, mode)
  \/ \E u \in Registrants, mid \in 1..MaxMov : ConfirmRequest(u, mid)
  \/ \E u \in Registrants, action \in {"approve", "block"} :
        SenderTrustRequest(u, 1, action)
  \/ \E u \in Registrants, b \in BOOLEAN : AdminReverseRequest(u, "m1", b)
  \/ Tick

SpecPriv == InitPriv /\ [][NextPriv]_vars

\* --------------------------------------------------------------- type check

TypeOK ==
  /\ total_cents \in Int
  /\ session_id \in Nat
  /\ mov_seq \in 0..MaxMov
  /\ Len(movements) <= mov_seq
  /\ \A i \in 1..Len(movements) : movements[i].kind \in {"add", "release", "reversal"}
  /\ tracking_mode \in {"auto", "manual"}
  /\ Len(participants) <= MAX_PARTICIPANTS
  /\ now \in 0..MaxNow
  /\ last.msg \in MsgIds \cup {""}

\* =================================================================== CLAIMS

\* ------------------------------------------------------------ claim helpers

\* what a movement contributes to the total of its session
Signed(m) == IF m.kind = "add" THEN m.amount_cents ELSE 0 - m.amount_cents

RECURSIVE SignedSum(_, _)
\* the signed amounts of the movements of session s, added up
SignedSum(ms, s) ==
  IF ms = <<>> THEN 0
  ELSE SignedSum(Front(ms), s)
       + (IF Last(ms).session_id = s THEN Signed(Last(ms)) ELSE 0)

\* the tables of the store, without the AUTOINCREMENT counters
Tables(d) ==
  [total_cents |-> d.total_cents, session_id |-> d.session_id,
   movements |-> d.movements, confirmations |-> d.confirmations,
   releases |-> d.releases, processed |-> d.processed, trust |-> d.trust,
   reversals |-> d.reversals, tracking_mode |-> d.tracking_mode]

MovementIds(d) == {d.movements[i].id : i \in 1..Len(d.movements)}

\* the trust state of an identity, "none" while it has no row
TrustStateOf(d, key) ==
  IF TrustIdx(d, key) = {} THEN "none"
  ELSE d.trust[CHOOSE i \in TrustIdx(d, key) : TRUE].state

\* the event passes both dedup checks of the pipeline: it is a match
Matched(d, msg, amount, conf) ==
  /\ amount > 0
  /\ ProcessedById(d, msg) = {}
  /\ FindByBaskConfirmation(d, conf, amount) = {}

\* the step is the ingestion of this event (the result is looked at first:
\* it tells most other steps apart at once)
Ingests(msg, key, amount, conf) ==
  /\ last'.op = "process"
  /\ last'.msg = msg
  /\ PollProcess(msg, key, amount, conf)

\* the step is the admin reversal requested for this event
Reverses(u, msg, block_payer) ==
  /\ last'.op = "adminrev"
  /\ last'.msg = msg
  /\ AdminReverse(u, msg, block_payer)

\* the reversal rows of an event
ReversalsOf(revs, msg) == {i \in 1..Len(revs) : revs[i].gmail_message_id = msg}

\* the store after the Undo handler has run on store d
AfterUndo(d) == undo_last_movement_tx(cleanup_expired_confirmations(d, now)).db

\* C1: the shared total is never negative, whatever sequence of manual adds,
\* releases, undos, ingested events and admin reversals has been applied.
C1_TotalNeverNegative == total_cents >= 0

\* C1 witness: an admin reversal was applied after the session of its event
\* had been released, so the subtraction was clamped at zero.
C1_Witness ==
  /\ last.op = "adminrev" /\ last.status = "reversed"
  /\ Len(movements) >= 2
  /\ movements[Len(movements) - 1].kind = "release"
  /\ Last(movements).kind = "reversal"
  /\ Last(movements).amount_cents > 0
  /\ total_cents = 0

\* C2: with manual adds, releases and undos only, the total equals the signed
\* sum (add counts +, release counts -) of the movements of the current session.
C2_TotalIsSessionSum == total_cents = SignedSum(movements, session_id)

\* C2 witness: a release was undone, and the session it had closed is the
\* current one again, with its adds and a positive total.
C2_Witness ==
  /\ last = Res("undo", "release", "")
  /\ total_cents > 0
  /\ movements # <<>>
  /\ Last(movements).kind = "add"
  /\ Last(movements).session_id = session_id

\* C5: in every reachable state, a manual add followed by Undo gives back the
\* total, the session and every table as they were, the movement and the
\* confirmation row of the add being gone; and a release of a positive total
\* followed by Undo gives back the total, the session and every table, the
\* release movement and the release row being gone.
C5_UndoInvertsAddAndRelease ==
  LET before == Swept
  IN /\ \A u \in Users, x \in AddAmounts :
          LET a == add_amount_with_confirmation(before, u, x, now).db
              b == AfterUndo(a)
          IN /\ a.mov_seq \in MovementIds(a)
             /\ \E c \in a.confirmations : c.movement_id = a.mov_seq
             /\ Tables(b) = Tables(before)
             /\ a.mov_seq \notin MovementIds(b)
             /\ \A c \in b.confirmations : c.movement_id # a.mov_seq
     /\ \A u \in Users :
          LET r == release_current_total(before, u)
          IN r.res.status = "released" =>
               /\ Len(r.db.releases) = Len(releases) + 1
               /\ r.db.mov_seq \in MovementIds(r.db)
               /\ Tables(AfterUndo(r.db)) = Tables(before)

\* C5 witness: with no event ever ingested, an add made on top of a positive
\* total has just been undone.
C5_Witness ==
  /\ last = Res("undo", "add", "")
  /\ processed = {}
  /\ total_cents > 0
  /\ mov_seq > Len(movements)

\* C6 (as stated; violated): in every reachable state, an admin reversal that
\* is applied and then undone gives back the total as it was before the
\* reversal and leaves neither the reversal movement nor the reversal row.
C6_UndoInvertsReversal ==
  \A u \in Users, msg \in MsgIds :
    LET r == admin_reverse_gmail_event_tx(Swept, msg, u, FALSE, now)
    IN r.res.status = "reversed" =>
         /\ AfterUndo(r.db).total_cents = Swept.total_cents
         /\ AfterUndo(r.db).movements = Swept.movements
         /\ AfterUndo(r.db).reversals = Swept.reversals

\* C7: a Release handled while the total is 0 returns the nothing-to-release
\* result, keeps session_id, appends no movement and no release row, and
\* leaves the total at 0.
C7_ReleaseOfZeroIsNoop ==
  [][\A u \in Users :
       (Release(u) /\ total_cents = 0) =>
          /\ last' = Res("release", "none", "")
          /\ total_cents' = 0
          /\ UNCHANGED <<session_id, movements, mov_seq, releases, rel_seq>>]_vars

\* C7 witness: a Release answered nothing-to-release in a session that a
\* release had opened before.
C7_Witness ==
  /\ last = Res("release", "none", "")
  /\ total_cents = 0
  /\ session_id > 1
  /\ Len(releases) = session_id - 1

\* C8: a Release handled with total T > 0 in session s appends exactly one
\* movement, of kind release, amount T, total_after 0 and session s, sets the
\* total to 0 and the session to s + 1; and a step that changes session_id
\* is a Release or an Undo.
C8_ReleaseClosesSession ==
  [][/\ \A u \in Users :
          (Release(u) /\ total_cents > 0) =>
             /\ movements' = Append(movements,
                   Movement(mov_seq + 1, session_id, "release", total_cents, 0))
             /\ total_cents' = 0
             /\ session_id' = session_id + 1
     /\ session_id' # session_id =>
          \E u \in Users : Release(u) \/ Undo(u)]_vars

\* C8 witness: a Release has just closed a session that held an ingested
\* event, and the log ends with its release movement.
C8_Witness ==
  /\ last = Res("release", "released", "")
  /\ session_id > 1
  /\ total_cents = 0
  /\ Last(movements).kind = "release"
  /\ Last(movements).session_id = session_id - 1
  /\ Last(movements).amount_cents > 0
  /\ \E r \in processed : r.status = "added"

\* C9: for every total T > 0 a release reports the fee that is T * FEE_PCT
\* rounded half-up to a cent (the cent count n with n - 1/2 <= T * FEE_PCT <
\* n + 1/2) and net = max(0, T - fee - NETWORK_FEE); for T = 100000 cents the
\* fee is 2000 and the net 97970.
C9_FeeAndNet ==
  \A i \in 1..Len(releases) :
    LET T == releases[i].released_total_cents
        fee == releases[i].fee_cents
        net == releases[i].net_cents
    IN /\ T > 0
       /\ 20000 * fee - 10000 <= 2 * T * FEE_PCT_BP
       /\ 2 * T * FEE_PCT_BP < 20000 * fee + 10000
       /\ net >= 0
       /\ net >= T - fee - NETWORK_FEE_CENTS
       /\ (net = 0 \/ net = T - fee - NETWORK_FEE_CENTS)
       /\ (T = 100000 => fee = 2000 /\ net = 97970)

\* C9 witness: the total of 100000 cents has been released, with fee 2000
\* and net 97970 in its release row.
C9_Witness ==
  /\ last = Res("release", "released", "")
  /\ releases # <<>>
  /\ Last(releases).released_total_cents = 100000
  /\ Last(releases).fee_cents = 2000
  /\ Last(releases).net_cents = 97970

\* C3: for every event id, at most one movement is ever linked to it: rows
\* of the processed table are never removed or rewritten, an ingestion step
\* that inserts a movement is the first attempt on its event id and records
\* that movement in the row of the event, and every attempt on an event id
\* that has a row returns duplicate and leaves the total, the session, the
\* movement log, the trust table and the processed table as they were.
C3_EventIdIdempotent ==
  [][/\ processed \subseteq processed'
     /\ \A msg \in MsgIds :
          Cardinality({r \in processed' : /\ r.gmail_message_id = msg
                                          /\ r.movement_id # Null}) <= 1
     /\ \A msg \in MsgIds, amount \in EventAmounts, conf \in ConfNumbers :
          Ingests(msg, "a", amount, conf) =>
            /\ ProcessedById(DB, msg) # {} =>
                 /\ last' = Res("process", "duplicate", msg)
                 /\ UNCHANGED <<total_cents, session_id, movements, mov_seq,
                                trust, processed>>
            /\ mov_seq' # mov_seq =>
                 /\ ProcessedById(DB, msg) = {}
                 /\ Len(movements') = Len(movements) + 1
                 /\ Last(movements').kind = "add"
                 /\ \E r \in processed' : /\ r.gmail_message_id = msg
                                          /\ r.status = "added"
                                          /\ r.movement_id = Last(movements').id]_vars

\* C3 witness: a second attempt on an event was answered duplicate after the
\* movement of the first attempt had been undone.
C3_Witness ==
  /\ last.op = "process" /\ last.status = "duplicate"
  /\ \E r \in processed : /\ r.gmail_message_id = last.msg
                          /\ r.status = "added"
                          /\ r.movement_id \notin MovementIds(DB)
  /\ total_cents = 0

\* C4 (as stated; violated): whenever an event that has no row yet is
\* processed while its sender identity is blocked, the outcome recorded for
\* it is blocked_sender, and the total and the movement log are unchanged.
C4_BlockedAlwaysRecorded ==
  [][\A msg \in MsgIds, amount \in EventAmounts, conf \in ConfNumbers :
       (/\ Ingests(msg, "a", amount, conf)
        /\ TrustStateOf(DB, "a") = "blocked"
        /\ ProcessedById(DB, msg) = {}) =>
          /\ \E r \in processed' : /\ r.gmail_message_id = msg
                                   /\ r.status = "blocked_sender"
          /\ UNCHANGED <<total_cents, movements>>]_vars

\* C4 (amended): whenever an event is processed while its sender identity is
\* blocked, the total, the session and the movement log are unchanged; the
\* outcome is blocked_sender, recorded in the row of the event, when the event
\* passes both dedup checks (no row has its event id, none has its
\* confirmation number and amount), and duplicate otherwise, with no row
\* written but the ignored_duplicate one of the second dedup check.
C4_BlockedNeverReachesLedger ==
  [][\A msg \in MsgIds, amount \in EventAmounts, conf \in ConfNumbers :
       (Ingests(msg, "a", amount, conf) /\ TrustStateOf(DB, "a") = "blocked") =>
          /\ UNCHANGED <<total_cents, session_id, movements, mov_seq>>
          /\ Matched(DB, msg, amount, conf) =>
               /\ last' = Res("process", "blocked_sender", msg)
               /\ \E r \in processed' : /\ r.gmail_message_id = msg
                                        /\ r.status = "blocked_sender"
                                        /\ r.movement_id = Null
          /\ ~Matched(DB, msg, amount, conf) =>
               /\ last' = Res("process", "duplicate", msg)
               /\ \A r \in processed' \ processed :
                                          r.status = "ignored_duplicate"]_vars

\* C4 witness: an identity whose earlier event was added was blocked, and its
\* next event has been recorded as blocked_sender with the total kept.
C4_Witness ==
  /\ last.op = "process" /\ last.status = "blocked_sender"
  /\ \E r \in processed : r.gmail_message_id = last.msg /\ r.status = "blocked_sender"
  /\ \E r \in processed : r.status = "added"
  /\ TrustStateOf(DB, "a") = "blocked"
  /\ total_cents > 0

\* C10: in an ingestion step no trust row is removed; a row that is approved
\* or blocked keeps its state; a quarantined row becomes approved if and only
\* if the event is a match from its identity and now >= its auto_promote_at,
\* otherwise it stays quarantined; and a row that is promoted gets
\* approved_by = 0.
C10_AutoPromotion ==
  [][\A msg \in MsgIds, key \in Identities, amount \in EventAmounts :
       Ingests(msg, key, amount, "") =>
         /\ Len(trust') >= Len(trust)
         /\ \A i \in 1..Len(trust) :
              LET due == /\ Matched(DB, msg, amount, "")
                         /\ trust[i].sender_email = key
                         /\ trust[i].auto_promote_at # Null
                         /\ now >= trust[i].auto_promote_at
              IN /\ trust[i].state \in {"approved", "blocked"} =>
                      trust'[i].state = trust[i].state
                 /\ trust[i].state = "quarantine" =>
                      /\ trust'[i].state = "approved" <=> due
                      /\ trust'[i].state \in {"quarantine", "approved"}
                      /\ due => trust'[i].approved_by = 0]_vars

\* C10 witness: an identity first seen GMAIL_ZELLE_AUTO_PROMOTE_DAYS ago or
\* earlier has just been seen again and is approved by the system actor.
C10_Witness ==
  /\ last.op = "process"
  /\ now >= GMAIL_ZELLE_AUTO_PROMOTE_DAYS
  /\ \E i \in 1..Len(trust) : /\ trust[i].state = "approved"
                              /\ trust[i].approved_by = 0
                              /\ trust[i].auto_promote_at = Null
                              /\ trust[i].last_seen_at = now
                              /\ trust[i].seen_count >= 2

\* C11: a manual add of x raises the total by x, appends one movement, of
\* kind add and amount x, and creates exactly one confirmation row for that
\* movement, unconfirmed, created now and expiring CONFIRM_WINDOW_DAYS later;
\* an ingestion step, also one that adds, leaves the confirmations alone.
C11_AddCreatesConfirmation ==
  [][/\ \A u \in Users, x \in AddAmounts :
          (last'.op = "add" /\ ManualAdd(u, x)) =>
             /\ total_cents' = total_cents + x
             /\ movements' = Append(movements,
                   Movement(mov_seq + 1, session_id, "add", x, total_cents + x))
             /\ Cardinality(confirmations') = Cardinality(confirmations) + 1
             /\ Cardinality({c \in confirmations' : c.movement_id = mov_seq + 1}) = 1
             /\ \A c \in confirmations' :
                   c.movement_id = mov_seq + 1 =>
                      /\ c.is_confirmed = 0
                      /\ c.confirmed_by = Null
                      /\ c.amount_cents = x
                      /\ c.created_at = now
                      /\ c.expires_at = c.created_at + CONFIRM_WINDOW_DAYS
     /\ \A msg \in MsgIds, amount \in EventAmounts :
          Ingests(msg, "a", amount, "") => confirmations' = confirmations]_vars

\* C11 witness: the log holds an add made by hand, with its pending
\* confirmation row, and after it an add made by the pipeline, with none.
C11_Witness ==
  /\ last.op = "process" /\ last.status = "added"
  /\ Len(movements) >= 2
  /\ Last(movements).kind = "add"
  /\ \A c \in confirmations : c.movement_id # Last(movements).id
  /\ \E c \in confirmations : /\ c.movement_id = movements[Len(movements) - 1].id
                              /\ c.is_confirmed = 0

\* the confirmation row of movement mid in a set of rows ({} when none)
ConfRows(rows, mid) == {c \in rows : c.movement_id = mid}

\* C12: a confirmed confirmation row is never written again: in every step
\* it is either kept as it is (confirmed, same confirmed_by and confirmed_at)
\* or deleted, and it is deleted only by an Undo; a row that appears belongs
\* to a movement id handed out in that step, so a deleted row never comes
\* back as pending; and an approval attempt on a confirmed row returns
\* already_confirmed.
C12_ConfirmedOnce ==
  [][/\ \A c \in confirmations :
          c.is_confirmed = 1 =>
             /\ ConfRows(confirmations', c.movement_id) \subseteq {c}
             /\ ConfRows(confirmations', c.movement_id) = {} =>
                  (last'.op = "undo" /\ \E u \in Users : Undo(u))
     /\ \A c \in confirmations' :
          ConfRows(confirmations, c.movement_id) = {} =>
             /\ c.movement_id = mov_seq'
             /\ mov_seq' = mov_seq + 1
             /\ c.is_confirmed = 0
     /\ \A u \in Users, mid \in 1..MaxMov :
          (/\ last'.op = "confirm"
           /\ Confirm(u, mid)
           /\ \E c \in ConfRows(confirmations, mid) : c.is_confirmed = 1) =>
              last' = Res("confirm", "already_confirmed", "")]_vars

\* C12 witness: a row that the sweep had confirmed after its window was
\* then put to the confirmer, who got already_confirmed; the row still
\* names the system as its confirmer.
C12_Witness ==
  /\ last = Res("confirm", "already_confirmed", "")
  /\ \E c \in confirmations : /\ c.is_confirmed = 1
                              /\ c.confirmed_by = 0
                              /\ c.confirmed_at < now

\* C13: every handler runs the sweep, and the clock is the only step that is
\* no handler.  For an unconfirmed row: when its expires_at <= now, a handler
\* step leaves it confirmed by the system (confirmed_by = 0, confirmed_at =
\* now), unless that step is the Undo that deletes it; when its expires_at >
\* now, no step makes it confirmed by the system: it is kept, or deleted, or
\* confirmed by the confirmer; and the clock step keeps every row.
C13_SweepConfirmsExpired ==
  [][\A c \in confirmations :
       c.is_confirmed = 0 =>
          LET after == ConfRows(confirmations', c.movement_id)
              swept == [c EXCEPT !.is_confirmed = 1, !.confirmed_at = now,
                                 !.confirmed_by = 0]
              approved == [c EXCEPT !.is_confirmed = 1, !.confirmed_at = now,
                                    !.confirmed_by = get_confirmer_id]
          IN /\ now' # now => after = {c}
             /\ (now' = now /\ c.expires_at <= now) =>
                   /\ after \subseteq {swept}
                   /\ after = {} => last'.op = "undo"
             /\ (now' = now /\ c.expires_at > now) =>
                   /\ after \subseteq {c, approved}
                   /\ after = {approved} => last' = Res("confirm", "confirmed", "")
                   /\ after = {} => last'.op = "undo"]_vars

\* C13 witness: of two pending rows the sweep has confirmed the one whose
\* window had elapsed and left the one whose window had not.
C13_Witness ==
  /\ \E c \in confirmations : /\ c.is_confirmed = 1
                              /\ c.confirmed_by = 0
                              /\ c.confirmed_at >= c.expires_at
  /\ \E c \in confirmations : /\ c.is_confirmed = 0
                              /\ c.expires_at > now

\* C14: in every reachable state, a sender trust row has an auto_promote_at
\* if and only if its state is quarantine.
C14_PromoteAtIffQuarantine ==
  \A i \in 1..Len(trust) :
    trust[i].auto_promote_at # Null <=> trust[i].state = "quarantine"

\* C14 witness: a sender that was quarantined and then promoted by the
\* pipeline has been blocked by a reverse-and-block of one of its events.
C14_Witness ==
  /\ last.op = "adminrev" /\ last.status = "reversed"
  /\ trust # <<>>
  /\ trust[1].state = "blocked"
  /\ trust[1].approved_by = 0
  /\ trust[1].blocked_by = get_confirmer_id
  /\ trust[1].auto_promote_at = Null

\* C15 (as stated; violated): when the pipeline processes a match from an
\* identity that has no trust row while the persisted tracking mode is auto
\* and the configured actor is a participant, it appends a trust row for the
\* identity in state quarantine with seen_count 1 and auto_promote_at = now
\* + GMAIL_ZELLE_AUTO_PROMOTE_DAYS, and it applies the add: the total grows
\* by the amount, one add movement is appended and the event is recorded
\* with status added and that movement.
C15_FirstSeenIsQuarantinedAndAdded ==
  [][\A msg \in MsgIds, amount \in EventAmounts :
       (/\ Ingests(msg, "a", amount, "")
        /\ Matched(DB, msg, amount, "")
        /\ TrustIdx(DB, "a") = {}
        /\ tracking_mode = "auto"
        /\ gmail_actor_id_ready # Null) =>
          /\ Len(trust') = Len(trust) + 1
          /\ Last(trust').sender_email = "a"
          /\ Last(trust').state = "quarantine"
          /\ Last(trust').seen_count = 1
          /\ Last(trust').auto_promote_at = now + GMAIL_ZELLE_AUTO_PROMOTE_DAYS
          /\ total_cents' = total_cents + amount
          /\ movements' = Append(movements,
                Movement(mov_seq + 1, session_id, "add", amount, total_cents + amount))
          /\ \E r \in processed' : /\ r.gmail_message_id = msg
                                   /\ r.status = "added"
                                   /\ r.movement_id = mov_seq + 1]_vars

\* C16: after every step there is at most one reversal row per event id; and
\* an admin reversal requested for an event that has a reversal row returns
\* already_reversed and leaves the total, the session, the movements, the
\* reversal rows, the trust table and the processed table as they were, also
\* when the block of the payer was asked for.
C16_OneReversalPerEvent ==
  [][/\ \A msg \in MsgIds : Cardinality(ReversalsOf(reversals', msg)) <= 1
     /\ \A u \in Users, msg \in MsgIds, b \in BOOLEAN :
          (Reverses(u, msg, b) /\ ReversalsOf(reversals, msg) # {}) =>
             /\ last' = Res("adminrev", "already_reversed", msg)
             /\ UNCHANGED <<total_cents, session_id, movements, mov_seq,
                            reversals, rev_seq, trust, processed>>]_vars

\* C16 witness: a reversal asked for an event that has a reversal row was
\* answered already_reversed, and the sender of the event is not blocked.
C16_Witness ==
  /\ last.op = "adminrev" /\ last.status = "already_reversed"
  /\ ReversalsOf(reversals, last.msg) # {}
  /\ trust # <<>>
  /\ trust[1].state # "blocked"

\* the processed rows an admin reversal can start from
AddedRows(d, msg) ==
  {r \in d.processed : /\ r.gmail_message_id = msg
                       /\ r.status = "added"
                       /\ r.movement_id # Null}

\* C17: an admin reversal of an event recorded as added, with no reversal
\* row and with its add movement still in the log, appends one reversal
\* movement carrying the amount of the event, sets the total to max(0, total
\* - amount) and appends one reversal row that links the event, the add
\* movement and the reversal movement; asked for an event with no row, for an
\* event recorded otherwise, or for one whose add movement was undone, it is
\* rejected and changes no table.
C17_ReversalEffect ==
  [][\A u \in Users, msg \in MsgIds, b \in BOOLEAN :
       Reverses(u, msg, b) =>
         IF /\ AddedRows(DB, msg) # {}
            /\ ReversalsOf(reversals, msg) = {}
            /\ \A r \in AddedRows(DB, msg) : r.movement_id \in MovementIds(DB)
         THEN \E r \in AddedRows(DB, msg) :
                LET amt == r.parsed_amount_cents
                    new_total == IF total_cents >= amt THEN total_cents - amt ELSE 0
                IN /\ last' = Res("adminrev", "reversed", msg)
                   /\ total_cents' = new_total
                   /\ session_id' = session_id
                   /\ movements' = Append(movements,
                         Movement(mov_seq + 1, session_id, "reversal", amt, new_total))
                   /\ Len(reversals') = Len(reversals) + 1
                   /\ SubSeq(reversals', 1, Len(reversals)) = reversals
                   /\ Last(reversals').gmail_message_id = msg
                   /\ Last(reversals').original_movement_id = r.movement_id
                   /\ Last(reversals').reversal_movement_id = mov_seq + 1
                   /\ Last(reversals').amount_cents = amt
         ELSE /\ last'.status \in {"missing", "already_reversed",
                                   "missing_original_movement"}
              /\ UNCHANGED <<total_cents, session_id, movements, mov_seq,
                             reversals, rev_seq, trust, processed>>]_vars

\* C17 witness: of two added events one has been reversed; the total keeps
\* the amount of the other and the reversal row links the two movements.
C17_Witness ==
  /\ last.op = "adminrev" /\ last.status = "reversed"
  /\ total_cents > 0
  /\ Last(movements).kind = "reversal"
  /\ Len(reversals) = 1
  /\ reversals[1].gmail_message_id = last.msg
  /\ reversals[1].reversal_movement_id = Last(movements).id
  /\ reversals[1].original_movement_id \in MovementIds(DB)

\* C18 (as stated; violated): when the pipeline processes a match from an
\* identity that is not blocked while the persisted tracking mode is manual,
\* or while the configured actor is no participant, the total and the
\* movement log are unchanged and the event is recorded with a shadow status.
C18_ManualModeShadows ==
  [][\A msg \in MsgIds, amount \in EventAmounts :
       (/\ Ingests(msg, "a", amount, "")
        /\ Matched(DB, msg, amount, "")
        /\ TrustStateOf(DB, "a") # "blocked"
        /\ (tracking_mode = "manual" \/ gmail_actor_id_ready = Null)) =>
          /\ UNCHANGED <<total_cents, movements>>
          /\ \E r \in processed' :
                /\ r.gmail_message_id = msg
                /\ r.status \in {"shadow_approved_match",
                                 "quarantined_unknown_sender"}]_vars

\* the pipeline takes its shadow branch on this match: the sender is not
\* blocked and the cycle is not live or has no actor
Shadowed(msg, key, amount) ==
  /\ Ingests(msg, key, amount, "")
  /\ Matched(DB, msg, amount, "")
  /\ TrustStateOf(DB, key) # "blocked"
  /\ (poll.effective_mode # "live" \/ poll.actor_id = Null)

TerminalStatuses ==
  {"ignored_duplicate", "blocked_sender", "shadow_approved_match", "added"}

\* C20: when the pipeline processes a well-formed event whose event id has no
\* row yet, the processed table gains exactly one row, that row is the only
\* one of the event id, and its status is the one of the branch taken
\* (ignored_duplicate, blocked_sender, shadow_approved_match or added); the
\* rows already there are kept.
C20_OneRowPerProcessedEvent ==
  [][\A msg \in MsgIds, amount \in EventAmounts, conf \in ConfNumbers :
       (Ingests(msg, "a", amount, conf) /\ ProcessedById(DB, msg) = {}) =>
         /\ processed \subseteq processed'
         /\ Cardinality(processed') = Cardinality(processed) + 1
         /\ Cardinality(ProcessedById(DB', msg)) = 1
         /\ \A r \in ProcessedById(DB', msg) :
               /\ r.status \in TerminalStatuses
               /\ r.status = "ignored_duplicate" <=>
                    FindByBaskConfirmation(DB, conf, amount) # {}
               /\ r.status # "ignored_duplicate" => r.status = last'.status]_vars

\* C20 witness: both events have been processed, the second one through the
\* secondary-key duplicate branch, and each has its one row.
C20_Witness ==
  /\ last.op = "process"
  /\ \A msg \in MsgIds : Cardinality(ProcessedById(DB, msg)) = 1
  /\ \E r \in ProcessedById(DB, last.msg) : r.status = "ignored_duplicate"
  /\ \E r \in processed : r.status \in TerminalStatuses \ {"ignored_duplicate"}

\* C21 (as stated; violated): no add movement with an amount <= 0 is ever in
\* the log and no confirmation row is ever created for such an amount.
C21_AddsArePositive ==
  /\ \A i \in 1..Len(movements) :
        movements[i].kind = "add" => movements[i].amount_cents > 0
  /\ \A c \in confirmations : c.amount_cents > 0

\* C22 (as stated; violated): every step that changes the store through a
\* manual add, a release, an undo, a confirmation, a sweep, a trust action, a
\* tracking-mode change, an admin reversal or an ingestion write (the
\* application of an event or the record of a parse_error / ignored_unmatched
\* outcome) runs while holding STATE_LOCK.
C22_MutationsHoldStateLock ==
  [][\A op \in {"add", "release", "undo", "confirm", "sweep", "sendertrust",
                "trackmode", "adminrev", "process", "record"} :
       (last'.op = op /\ storeVars' # storeVars) => HoldsStateLock(op)]_vars

\* C23: when the transaction of a manual add, a release, an undo, an
\* ingestion or an admin reversal raises after any number of its statements,
\* the total, the session, the movement log, the confirmations, the
\* processed rows, the trust rows and the reversal rows are those the
\* transaction started from (the swept store for a handler, the store itself
\* for the poll loop).
C23_FailureLeavesStore ==
  [][last'.status = "error" =>
       IF last'.op = "process" THEN DB' = DB ELSE DB' = Swept]_vars

\* C23 witness: the admin reversal of an event that was added, and whose
\* add movement and total are still there, has just raised.
C23_Witness ==
  /\ last.op = "adminrev" /\ last.status = "error"
  /\ AddedRows(DB, last.msg) # {}
  /\ ReversalsOf(reversals, last.msg) = {}
  /\ \E r \in AddedRows(DB, last.msg) : OriginalMovementExists(DB, r.movement_id)
  /\ total_cents > 0

\* C24: the notification of an ingestion outcome, sent or failed, changes no
\* table: after a failed notification of an added event its add movement,
\* the total and its processed row are as the ingestion left them; and the
\* ingestion of an event that has a row, in this or a later poll cycle,
\* answers duplicate and changes no table.
C24_NotifyFailureKeepsCommit ==
  [][/\ \A sent \in BOOLEAN :
          (last'.op = "notify" /\ PollNotify(sent)) => UNCHANGED storeVars
     /\ \A msg \in MsgIds, amount \in EventAmounts :
          (Ingests(msg, "a", amount, "") /\ ProcessedById(DB, msg) # {}) =>
             /\ last'.status = "duplicate"
             /\ UNCHANGED storeVars]_vars

\* C24 witness: the notification of an event that was added has just
\* failed; the add movement, the total and the row of the event are there.
C24_Witness ==
  /\ last = Res("notify", "failed", last.msg)
  /\ \E r \in AddedRows(DB, last.msg) :
        /\ OriginalMovementExists(DB, r.movement_id)
        /\ total_cents >= r.parsed_amount_cents
        /\ r.parsed_amount_cents > 0

C26_AppliedOnlyInAutoMode ==
  [][\A msg \in MsgIds, amount \in EventAmounts :
       Ingests(msg, "a", amount, "") =>
         /\ last'.status = "added" => tracking_mode = "auto"
         /\ tracking_mode = "manual" => /\ movements' = movements
                                        /\ AddedRows(DB', msg) = {}]_vars

\* the rows whose confirmation number and amount are those of an event
SameBusinessKey(rows, amount, conf) ==
  {r \in rows : /\ conf # ""
                /\ r.source_kind = "bask_zelle"
                /\ r.confirmation_number = conf
                /\ r.parsed_amount_cents = amount}

\* C27: when the pipeline processes an event whose id has no row and whose
\* confirmation number and amount are those of a recorded event, it records
\* it as ignored_duplicate with a reference to that event's id, answers
\* duplicate, and leaves the total, the movement log and the trust rows as
\* they are; an event with no such recorded event (no confirmation number,
\* another number or another amount) is never recorded as ignored_duplicate.
C27_SecondaryKeyDedup ==
  [][\A msg \in MsgIds, key \in Identities, amount \in DedupAmounts,
        conf \in ConfNumbers :
       (/\ last'.op = "process" /\ last'.msg = msg
        /\ PollProcess(msg, key, amount, conf)
        /\ ProcessedById(DB, msg) = {}) =>
          IF SameBusinessKey(processed, amount, conf) # {}
          THEN /\ last'.status = "duplicate"
               /\ \E r \in processed' \ processed :
                     /\ r.gmail_message_id = msg
                     /\ r.status = "ignored_duplicate"
                     /\ r.movement_id = Null
                     /\ \E o \in SameBusinessKey(processed, amount, conf) :
                           r.duplicate_of = o.gmail_message_id
               /\ UNCHANGED <<total_cents, movements, trust>>
          ELSE \A r \in processed' \ processed : r.status # "ignored_duplicate"]_vars

\* C27 witness: an event was added, and a second event with its
\* confirmation number and amount has just been recorded as its duplicate.
C27_Witness ==
  /\ last.op = "process" /\ last.status = "duplicate"
  /\ \E r \in processed, o \in processed :
        /\ r.gmail_message_id = last.msg
        /\ r.status = "ignored_duplicate"
        /\ o.gmail_message_id = r.duplicate_of
        /\ o.status = "added"
        /\ o.confirmation_number = r.confirmation_number
        /\ o.parsed_amount_cents = r.parsed_amount_cents

\* the trust row of an identity in store d, or one with seen_count 0 when
\* the identity was never seen
TrustRowOf(d, key) ==
  IF TrustIdx(d, key) = {}
  THEN [seen_count |-> 0, last_seen_at |-> Null, last_matched_amount_cents |-> Null]
  ELSE d.trust[CHOOSE i \in TrustIdx(d, key) : TRUE]

\* C28: every event that passes both dedup checks leaves the trust row of its
\* identity with seen_count one higher (1 for an identity never seen), with
\* last_seen_at the time of the event and last_matched_amount_cents its
\* amount, whether the identity is quarantined, approved or blocked and
\* whether the event is added, shadowed or recorded as blocked_sender; the
\* rows of the other identities are as before.
C28_EveryMatchIsCounted ==
  [][\A msg \in MsgIds, key \in Identities, amount \in DedupAmounts :
       (Ingests(msg, key, amount, "") /\ Matched(DB, msg, amount, "")) =>
          /\ last'.status \in {"added", "shadow_approved_match", "blocked_sender"}
          /\ Cardinality(TrustIdx(DB', key)) = 1
          /\ TrustRowOf(DB', key).seen_count = TrustRowOf(DB, key).seen_count + 1
          /\ TrustRowOf(DB', key).last_seen_at = now
          /\ TrustRowOf(DB', key).last_matched_amount_cents = amount
          /\ \A other \in Identities \ {key} :
                TrustRowOf(DB', other) = TrustRowOf(DB, other)]_vars

\* C28 witness: a blocked identity has been seen twice, the second time on a
\* later day and with another amount than the first, and that event was
\* recorded as blocked_sender.
C28_Witness ==
  /\ last.op = "process" /\ last.status = "blocked_sender"
  /\ \E i \in 1..Len(trust), r \in processed :
        /\ trust[i].state = "blocked"
        /\ trust[i].seen_count = 2
        /\ trust[i].last_seen_at = now /\ now > 0
        /\ r.identity_key = trust[i].sender_email
        /\ r.gmail_message_id # last.msg
        /\ r.parsed_amount_cents # trust[i].last_matched_amount_cents

\* C29: a manual approve (block) of a trust row by the confirmer leaves the
\* row approved (blocked) with no auto_promote_at, whatever its state was,
\* and leaves the other rows as they are; a row that is blocked stays
\* blocked in every step but a manual approve; and no step takes a row that
\* is approved or blocked into quarantine.
C29_ManualTrustActions ==
  [][/\ \A u \in Users, tid \in 1..Len(trust), action \in {"approve", "block"} :
          (last'.op = "sendertrust" /\ SenderTrustAction(u, tid, action)) =>
             /\ trust'[tid].state = IF action = "approve" THEN "approved" ELSE "blocked"
             /\ trust'[tid].auto_promote_at = Null
             /\ Len(trust') = Len(trust)
             /\ \A j \in 1..Len(trust) : j # tid => trust'[j] = trust[j]
     /\ \A i \in 1..Len(trust) :
          /\ (trust[i].state = "blocked" /\ trust'[i].state # "blocked") =>
                /\ trust'[i].state = "approved"
                /\ last' = Res("sendertrust", "approved", "")
          /\ trust[i].state # "quarantine" => trust'[i].state # "quarantine"]_vars

\* C29 witness: a sender the pipeline had promoted has just been blocked by
\* the confirmer.
C29_Witness ==
  /\ last = Res("sendertrust", "blocked", "")
  /\ trust # <<>>
  /\ trust[1].state = "blocked"
  /\ trust[1].approved_by = 0
  /\ trust[1].auto_promote_at = Null

\* C30 (as stated; violated): no step takes a trust row from quarantine to
\* blocked or from blocked to quarantine.
C30_NoQuarantineBlockedStep ==
  [][\A i \in 1..Len(trust) :
       /\ ~(trust[i].state = "quarantine" /\ trust'[i].state = "blocked")
       /\ ~(trust[i].state = "blocked" /\ trust'[i].state = "quarantine")]_vars

\* C30 (amended): the state of a trust row changes in one step only from
\* quarantine to approved, from quarantine to blocked, from approved to
\* blocked or from blocked to approved, never into quarantine; the step from
\* quarantine to blocked is a manual block or an admin reversal that blocks
\* the payer.
C30_TrustStateSteps ==
  [][\A i \in 1..Len(trust) :
       /\ trust[i].state # trust'[i].state =>
            <<trust[i].state, trust'[i].state>> \in
               {<<"quarantine", "approved">>, <<"quarantine", "blocked">>,
                <<"approved", "blocked">>, <<"blocked", "approved">>}
       /\ (trust[i].state = "quarantine" /\ trust'[i].state = "blocked") =>
            \/ last' = Res("sendertrust", "blocked", "")
            \/ last'.op = "adminrev" /\ last'.status = "reversed"]_vars

\* C30 witness: a sender that was never approved, quarantined until then,
\* has just been blocked by a reverse-and-block of its event.
C30_Witness ==
  /\ last.op = "adminrev" /\ last.status = "reversed"
  /\ trust # <<>>
  /\ trust[1].state = "blocked"
  /\ trust[1].approved_by = Null
  /\ trust[1].blocked_by = get_confirmer_id

\* C31: an admin reversal asked with the block of the payer, when it
\* succeeds, leaves the trust row of the identity of the reversed event in
\* state blocked with no auto_promote_at, in the step that appends the
\* reversal, and leaves the rows of the other identities as they are; a
\* reversal asked without it changes no trust row; and every later match
\* from a blocked identity is recorded as blocked_sender with no movement.
C31_ReverseAndBlock ==
  [][/\ \A u \in Users, msg \in MsgIds, b \in BOOLEAN :
          (Reverses(u, msg, b) /\ last'.status = "reversed") =>
             \A r \in AddedRows(DB, msg) :
                /\ Len(trust') = Len(trust)
                /\ \A i \in 1..Len(trust) :
                      IF b /\ trust[i].sender_email = r.identity_key
                      THEN /\ trust'[i].state = "blocked"
                           /\ trust'[i].auto_promote_at = Null
                           /\ trust'[i].blocked_by = u
                      ELSE trust'[i] = trust[i]
                /\ b => TrustIdx(DB, r.identity_key) # {}
                /\ Len(reversals') = Len(reversals) + 1
     /\ \A msg \in MsgIds, key \in Identities, amount \in EventAmounts :
          (/\ Ingests(msg, key, amount, "")
           /\ Matched(DB, msg, amount, "")
           /\ TrustStateOf(DB, key) = "blocked") =>
             /\ last'.status = "blocked_sender"
             /\ UNCHANGED <<total_cents, movements>>
             /\ \E r \in processed' : /\ r.gmail_message_id = msg
                                      /\ r.status = "blocked_sender"
                                      /\ r.movement_id = Null]_vars

\* C31 witness: an event of an identity was reversed with the block of the
\* payer, and the next event of that identity has just been recorded as
\* blocked_sender.
C31_Witness ==
  /\ last.op = "process" /\ last.status = "blocked_sender"
  /\ \E i \in 1..Len(reversals), r \in processed :
        /\ r.gmail_message_id = last.msg
        /\ reversals[i].gmail_message_id # last.msg
        /\ reversals[i].payer_key = r.identity_key
        /\ TrustStateOf(DB, r.identity_key) = "blocked"

\* C32: a task that answers a callback, fetches mail, sends a notification,
\* deletes a message or updates a panel does not hold STATE_LOCK while it
\* does; and a task that holds the lock has only the steps of its critical
\* section (sweep or transaction) before it releases it.
C32_NoIOUnderLock ==
  [][\A t \in Tasks :
       /\ (last'.op \in IOSteps /\ last'.msg = t /\ TaskStep(t)) => STATE_LOCK # t
       /\ STATE_LOCK' = t =>
            /\ pc'[t].at < Len(Program(pc'[t].prog))
            /\ Program(pc'[t].prog)[pc'[t].at + 1] \in {"sweep", "tx", "release"}]_vars

\* C32 witness: the poll task has sent its notification, after its
\* transaction and outside the lock, while the handler task is inside its
\* critical section.
C32_Witness ==
  /\ last = Res("send", "unlocked", "poll")
  /\ STATE_LOCK = "handler"
  /\ pc["poll"].prog = "refresh_gmail_zelle_once"

\* C33: a cycle that fails, in its fetch or while it processes a message,
\* leaves the loop asleep and not stopped, and leaves the messages it did
\* not record without a row, so that a later fetch returns them; a fetched
\* message that is processed gets its row; and as long as the loop is not
\* cancelled, a cycle is started again and again.
C33_LoopSurvivesFailures ==
  /\ [][/\ (last' # last /\ last'.status = "error") =>
              /\ loop'.status = "sleeping"
              /\ UNCHANGED storeVars
              /\ loop.fetched \cap {m \in MsgIds : ProcessedById(DB, m) = {}}
                    \subseteq {m \in MsgIds : ProcessedById(DB', m) = {}}
        /\ \A msg \in MsgIds, amount \in EventAmounts :
              (last'.op = "process" /\ LoopProcess(msg, "a", amount)) =>
                 ProcessedById(DB', msg) # {}]_vars
  /\ ([](loop.status # "stopped") => []<>(loop.status = "fetching"))

\* C33 witness: a cycle has recorded one message and has failed on the
\* other, which has no row; the loop is asleep.
C33_Witness ==
  /\ last.op = "process" /\ last.status = "error"
  /\ loop.status = "sleeping"
  /\ ProcessedById(DB, last.msg) = {}
  /\ \E m \in MsgIds : ProcessedById(DB, m) # {}

\* C34 (as stated; violated): the poll loop stops only when no cycle is in
\* progress or when the cycle in progress has recorded every message it
\* fetched; and an ingestion step that changes the total appends the
\* movement and the processed row of its event.
C34_StopsAfterCycle ==
  [][/\ (loop'.status = "stopped" /\ loop.status # "stopped") =>
           \A m \in loop.fetched : ProcessedById(DB', m) # {}
     /\ (last'.op = "process" /\ total_cents' # total_cents) =>
           /\ Len(movements') = Len(movements) + 1
           /\ AddedRows(DB', last'.msg) # {}]_vars

\* C35 (as stated; violated): when a panel refresh shows the pending count,
\* the poll cycle's refresh included, no confirmation whose expires_at has
\* elapsed is unconfirmed in the store.
C35_SweepBeforePanels ==
  [][last'.op = "panel" /\ last' # last => ExpiredUnconfirmed(DB, now) = {}]_vars
C37_SessionSumWithReversals ==
  \A s \in {session_id} :
    SignedSum(movements, s) = total_cents
\* C38: in every reachable state whose latest movement (highest id) is an
\* add, that movement carries the current session_id and the total is at
\* least its amount; hence an Undo that removes an add keeps session_id and
\* lowers the total by exactly the amount of the add, without the clamp.
C38_LatestAddIsCurrent ==
  /\ [](movements # <<>> /\ Last(movements).kind = "add" =>
          /\ Last(movements).session_id = session_id
          /\ total_cents >= Last(movements).amount_cents)
  /\ [][\A u \in Users :
          (last'.op = "undo" /\ last'.status = "add" /\ Undo(u)) =>
             /\ session_id' = session_id
             /\ total_cents' = total_cents - Last(movements).amount_cents]_vars

\* C38 witness: an add made after a release and after the log had grown to
\* its bound has just been undone, and the session is the one the release
\* opened.
C38_Witness ==
  /\ last = Res("undo", "add", "")
  /\ session_id > 1
  /\ mov_seq = MaxMov
  /\ Last(movements).kind = "release"
\* C39 (as stated; violated): in every reachable state, every processed row
\* with status added references, through movement_id, an add movement that
\* is still in the movement log and has the amount of the row.
C39_AddedRowHasMovement ==
  \A r \in processed :
    r.status = "added" =>
      \E i \in 1..Len(movements) :
         /\ movements[i].id = r.movement_id
         /\ movements[i].kind = "add"
         /\ movements[i].amount_cents = r.parsed_amount_cents
\* C40: in every reachable state, every reversal row references a movement
\* of kind reversal and a movement of kind add that are both in the movement
\* log, the add before the reversal: Undo removes the latest movement only
\* and removes the row together with its reversal movement, so the add of a
\* reversed event stays while the row exists.
C40_ReversalRowsHaveMovements ==
  \A i \in 1..Len(reversals) :
    \E j, k \in 1..Len(movements) :
       /\ j < k
       /\ movements[j].id = reversals[i].original_movement_id
       /\ movements[j].kind = "add"
       /\ movements[k].id = reversals[i].reversal_movement_id
       /\ movements[k].kind = "reversal"

\* C40 witness: an add made after a reversal has just been undone, and the
\* reversal row, its reversal movement and the add it reverses are still
\* there.
C40_Witness ==
  /\ last = Res("undo", "add", "")
  /\ reversals # <<>>
  /\ Last(movements).kind = "reversal"

====
